---- MODULE Spec2Model ----
(***************************************************************************)
(* A model of nabot (github.com/bale-ir/nabot): the update dispatcher      *)
(* (nabot.go), the state stack machine (state.go) and the per-chat data    *)
(* storage (DataStorage, memoryStore).                                     *)
(***************************************************************************)
EXTENDS Integers, Sequences, FiniteSets, TLC

\* ------------------------------------------------------------------------
\* Bounds and universes
\* ------------------------------------------------------------------------

\* Longest list of names held by a stack blob that was persisted before this
\* process started (a StateStorage given with WithStateStore).
MaxStored == 3

\* Longest stack handed to setStack when the round trip is checked.
MaxStack == 3

\* Chat keys (nativeContext.chatKey) and state names (BaseState.ID).
ChatKeys == {"c1", "c2"}
StateNames == {"main", "quiz", "result"}

\* Data keys (DataKey[T]) and the goroutines that call the data storage.
DataKeys == {"category", "currentQuestion"}
Workers == {"w1", "w2"}

\* Most handlers registered with App.Handle, and most updates the transport
\* sends before it closes the channel.
MaxHandlers == 3
MaxUpdates == 2

\* Handler names (Handler.Name) and what a Handler.Handle may return.
HandlerNames == {"/start", "state_handler", "function_handler"}

\* The handlers the application registers, in its program's order (the quiz
\* bot's: the /start command, the state handler, the default function); a
\* longer chain goes on with handlers of the same kinds.
Registered == <<"/start", "state_handler", "function_handler">>
NthHandler(n) == Registered[((n - 1) % Len(Registered)) + 1]
HandlerOutcomes == {"nil", "ErrPass", "ErrHandler"}

\* Distinct payloads a handler may Set.
NumValues == 2

\* A stored value (an any): its dynamic type and payload and, as history, the
\* chat key of the context it was Set with. NilValue is the nil interface
\* value, which Set stores for a nil value of an interface type T (such as
\* DataKey[any] or DataKey[error]); NoValue stands for "no value".
NoValue == [by |-> "", type |-> "", v |-> 0]
TypedValue(chatKey, type, n) == [by |-> chatKey, type |-> type, v |-> n]
Value(chatKey, n) == TypedValue(chatKey, "string", n)
NilValue(chatKey) == [by |-> chatKey, type |-> "<nil>", v |-> 0]

\* The types T of the DataKey[T] that Get is called with: two concrete types
\* and the interface type any.
KeyTypes == {"string", "int", "any"}

\* reflect's Type.AssignableTo, from a value's dynamic type to T.
AssignableTo(type, T) == type = T \/ T = "any"

\* A Transition value: nil, back{} or toState{state} (by the state's name).
NilTransition == [kind |-> "nil", state |-> ""]
BackTransition == [kind |-> "back", state |-> ""]
ToStateTransition(name) == [kind |-> "toState", state |-> name]

\* A State value (a pointer to a struct that embeds BaseState): its ID, the
\* object it points to and its ToNext. NilState is the nil interface value.
State(name, obj, next) == [ID |-> name, obj |-> obj, ToNext |-> next]
NilState == State("<nil>", 0, NilTransition)

\* The State values application code hands to RegisterState: one per name,
\* and a second object that also calls itself "main".
States == {State(n, 1, NilTransition) : n \in StateNames}
SecondMain == State("main", 2, NilTransition)

VARIABLES
    phase,      \* "setup": handlers and states are being registered;
                \* "running": Run is in its loop; "returned": Run has
                \* returned; "panicked": a panic has ended the process
    states,     \* StateHandler.states: name -> State (a function)
    stateData,  \* memoryStateStore.data: chatKey -> persisted stack blob
    last,       \* the last state-machine operation and what it did
    fresh,      \* the chat keys that had no persisted stack at construction
    trans,      \* per goroutine, the Transition.Go call it is in (its locals)
    data,       \* memoryStore.data: chatKey -> the chat's *sync.Map (0: none)
    heap,       \* the sync.Maps allocated by SetData/RemoveData and still
                \* referenced: reference -> (dataKey -> value)
    ops,        \* per goroutine, the DataStorage call it is in or just ended
    hist,       \* history: the data storage calls made so far, in the order
                \* they were started, each with the calls that had returned
                \* before it started and, once it has returned, its result
    latest,     \* history: per chat and key, the value of the latest Set that
                \* no Remove or Clear followed (kept for sequential use)
    handlers,   \* App.handlers: the chain, in registration order
    updatesChan,\* App.updatesChan: the updates sent and not yet received
    closed,     \* whether the transport has closed updatesChan
    wg,         \* App.wg: the WaitGroup's counter
    tasks,      \* the goroutines started by the executor, one per update
                \* received, in the order Run received them
    stopped,    \* "no", or when a call of Stop returned: "before close",
                \* "after close" (of the channel) or "after Run" (returned)
    received    \* Run's loop variable: the update received from the channel
                \* and not yet handed to the executor (at most one)

stackVars == <<states, stateData, last, fresh, trans>>
storeVars == <<data, heap, ops, latest, hist>>
dispatchVars == <<handlers, updatesChan, closed, wg, tasks, stopped, received>>
vars == <<phase, states, stateData, last, fresh, trans, data, heap, ops, latest, hist,
          handlers, updatesChan, closed, wg, tasks, stopped, received>>

\* ------------------------------------------------------------------------
\* encoding/json on a []string, over a blob of JSON tokens
\* ------------------------------------------------------------------------

Tok(k, s) == [k |-> k, s |-> s]
LBracket == Tok("punct", "[")
RBracket == Tok("punct", "]")
Comma == Tok("punct", ",")
JSONNull == Tok("lit", "null")
JSONNumber == Tok("lit", "1")
JSONString(s) == Tok("string", s)

RECURSIVE MarshalElems(_)
MarshalElems(names) ==
    IF Len(names) = 1 THEN <<JSONString(names[1])>>
    ELSE <<JSONString(names[1]), Comma>> \o MarshalElems(Tail(names))

\* json.Marshal(&states): a nil slice encodes as null, any other as an array.
\* setStack's slice is nil exactly when nothing was appended to it.
Marshal(names) ==
    IF Len(names) = 0 THEN <<JSONNull>>
    ELSE <<LBracket>> \o MarshalElems(names) \o <<RBracket>>

RECURSIVE UnmarshalElems(_)
UnmarshalElems(toks) ==
    IF Len(toks) < 2 THEN [err |-> TRUE, val |-> <<>>]
    ELSE IF toks[1].k # "string" THEN [err |-> TRUE, val |-> <<>>]
    ELSE IF toks[2] = RBracket
        THEN IF Len(toks) = 2 THEN [err |-> FALSE, val |-> <<toks[1].s>>]
             ELSE [err |-> TRUE, val |-> <<>>]
    ELSE IF toks[2] = Comma
        THEN LET r == UnmarshalElems(SubSeq(toks, 3, Len(toks)))
             IN  IF r.err THEN r
                 ELSE [err |-> FALSE, val |-> <<toks[1].s>> \o r.val]
    ELSE [err |-> TRUE, val |-> <<>>]

\* json.Unmarshal(st, &states) into a []string: null and [] give no names,
\* an array of strings gives them in order, anything else is an error.
Unmarshal(blob) ==
    IF blob = <<JSONNull>> THEN [err |-> FALSE, val |-> <<>>]
    ELSE IF blob = <<LBracket, RBracket>> THEN [err |-> FALSE, val |-> <<>>]
    ELSE IF Len(blob) > 0 /\ blob[1] = LBracket
        THEN UnmarshalElems(Tail(blob))
    ELSE [err |-> TRUE, val |-> <<>>]

\* ------------------------------------------------------------------------
\* memoryStateStore
\* ------------------------------------------------------------------------

\* What a StateStorage holds for a chat key: a blob or nothing, and, for a
\* custom storage (WithStateStore) that can fail, the call that fails for the
\* key ("": none; the in-memory storage never fails).
NoBlob == [present |-> FALSE, blob |-> <<>>, fails |-> ""]
Blob(b) == [present |-> TRUE, blob |-> b, fails |-> ""]
Failing(b, call) == [b EXCEPT !.fails = call]

GetStack(m, chatKey) ==
    IF m[chatKey].fails = "GetStack"
        THEN [val |-> <<>>, err |-> "ErrStorage"]
    ELSE IF m[chatKey].present
        THEN [val |-> m[chatKey].blob, err |-> "nil"]
        ELSE [val |-> <<>>, err |-> "ErrStateNotFound"]

\* Mutant of SetStack: the stack is stored for every chat key.
SetStackForAll(m, chatKey, stack) == [k \in DOMAIN m |-> Blob(stack)]

\* The storage after SetStack; a call that fails stores nothing.
SetStack(m, chatKey, stack) ==
    IF m[chatKey].fails = "SetStack" THEN m
    ELSE [m EXCEPT ![chatKey] = Blob(stack)]

\* What SetStack returns.
SetStackErr(m, chatKey) ==
    IF m[chatKey].fails = "SetStack" THEN "ErrStorage" ELSE "nil"

\* ------------------------------------------------------------------------
\* StateHandler
\* ------------------------------------------------------------------------

Range(f) == {f[x] : x \in DOMAIN f}

RECURSIVE ResolveReversed(_, _)
\* Mutant of Resolve: the result is built back to front.
ResolveReversed(reg, names) ==
    IF Len(names) = 0 THEN <<>>
    ELSE IF names[1] \in DOMAIN reg
        THEN ResolveReversed(reg, Tail(names)) \o <<reg[names[1]]>>
        ELSE ResolveReversed(reg, Tail(names))

RECURSIVE ResolveStopAtUnknown(_, _)
\* Mutant of Resolve: a name that is not registered ends the loop.
ResolveStopAtUnknown(reg, names) ==
    IF Len(names) = 0 THEN <<>>
    ELSE IF names[1] \in DOMAIN reg
        THEN <<reg[names[1]]>> \o ResolveStopAtUnknown(reg, Tail(names))
        ELSE <<>>

RECURSIVE Resolve(_, _)
\* getStack's loop: the registered State of every name that has one, in order.
Resolve(reg, names) ==
    IF Len(names) = 0 THEN <<>>
    ELSE IF names[1] \in DOMAIN reg
        THEN <<reg[names[1]]>> \o Resolve(reg, Tail(names))
        ELSE Resolve(reg, Tail(names))

\* Mutant of getStack: a blob that does not parse is an error.
getStackFailsOnParse(m, reg, key) ==
    LET g == GetStack(m, key)
    IN  IF g.err = "ErrStateNotFound" THEN [stack |-> <<>>, err |-> "nil"]
        ELSE LET u == Unmarshal(g.val)
             IN  IF u.err THEN [stack |-> <<>>, err |-> "failed to unmarshal"]
                 ELSE [stack |-> Resolve(reg, u.val), err |-> "nil"]

\* StateHandler.getStack: (stack, err); a nil stack is the empty sequence.
getStack(m, reg, key) ==
    LET g == GetStack(m, key)
    IN  IF g.err = "ErrStateNotFound" THEN [stack |-> <<>>, err |-> "nil"]
        ELSE IF g.err # "nil" THEN [stack |-> <<>>, err |-> "failed to get stack"]
        ELSE LET u == Unmarshal(g.val)
             IN  IF u.err THEN [stack |-> <<>>, err |-> "nil"]
                 ELSE [stack |-> Resolve(reg, u.val), err |-> "nil"]

RECURSIVE KnownNames(_, _)
\* setStack's loop: the names of the stack's states that are registered.
KnownNames(reg, stack) ==
    IF Len(stack) = 0 THEN <<>>
    ELSE IF stack[1].ID \in DOMAIN reg
        THEN <<stack[1].ID>> \o KnownNames(reg, Tail(stack))
        ELSE KnownNames(reg, Tail(stack))

\* Mutant of setStack: nothing is written.
setStackNoWrite(m, reg, key, stack) == m

\* StateHandler.setStack: the storage after the write (the in-memory store
\* and json.Marshal of a []string never fail).
setStack(m, reg, key, stack) == SetStack(m, key, Marshal(KnownNames(reg, stack)))

\* Mutant of setStackErr: the error of the storage is dropped.
setStackErrDropped(m, key) == "nil"

\* StateHandler.setStack: the error it returns.
setStackErr(m, key) ==
    IF SetStackErr(m, key) # "nil" THEN "failed to set stack" ELSE "nil"

\* slices.IndexFunc by name, 1-based; 0 where Go returns -1.
IndexFunc(stack, name) ==
    IF \E i \in 1..Len(stack) : stack[i].ID = name
        THEN CHOOSE i \in 1..Len(stack) :
                /\ stack[i].ID = name
                /\ \A j \in 1..(i - 1) : stack[j].ID # name
        ELSE 0

\* Mutant of toStateStack: a state that is not on the stack replaces the top.
toStateStackReplaceTop(stack, state) ==
    LET idx == IndexFunc(stack, state.ID)
    IN  IF idx > 0 THEN SubSeq(stack, 1, idx)
        ELSE SubSeq(stack, 1, Len(stack) - 1) \o <<state>>

\* Mutant of toStateStack: the truncation is stack[:idx], which drops the
\* state itself.
toStateStackDropsTarget(stack, state) ==
    LET idx == IndexFunc(stack, state.ID)
    IN  IF idx > 0 THEN SubSeq(stack, 1, idx - 1) ELSE Append(stack, state)

\* Mutant of toStateStack: the state is appended whether or not it is there.
toStateStackAlwaysAppend(stack, state) == Append(stack, state)

\* toState.Go: the stack it persists.
toStateStack(stack, state) ==
    LET idx == IndexFunc(stack, state.ID)
    IN  IF idx > 0 THEN SubSeq(stack, 1, idx) ELSE Append(stack, state)

\* Mutant of backReturnsEarly: the empty stack is not special.
backNeverReturnsEarly(stack) == FALSE

\* back.Go: whether it returns at once, touching nothing.
backReturnsEarly(stack) == Len(stack) = 0

\* Mutant of backStack: every entry is dropped.
backStackClears(stack) == <<>>

\* back.Go: the stack it persists, stack[:len(stack)-1].
backStack(stack) == SubSeq(stack, 1, Len(stack) - 1)

\* What Render and a state's Handle, which are application code, may return.
RenderOutcomes == {"nil", "ErrRender"}
HandleOutcomes == {"nil", "ErrPass", "ErrHandler"}

\* A call of a state's Render or Handle and what it returned.
Call(name, err) == [state |-> name, err |-> err]

\* The last operation: via names the state whose ToNext was invoked, if the
\* transition was made through one.
NoOp == [op |-> "none", key |-> "", state |-> "", via |-> "", before |-> <<>>,
         dataBefore |-> [k \in ChatKeys |-> NoBlob], rendered |-> <<>>,
         handled |-> <<>>, err |-> "nil"]

\* Mutant of handleStorage: Handle writes the stack it read back.
handleStorageRewritten(m, reg, key, stack) ==
    SetStack(m, key, Marshal(KnownNames(reg, stack)))

\* StateHandler.Handle: the storage after it; Handle calls getStack and the
\* top state's Handle, never setStack.
handleStorage(m, reg, key, stack) == m

\* StateHandler.Handle: whether it declines without delegating.
handleDeclines(r) == r.err = "nil" /\ Len(r.stack) = 0

\* Mutant of handleTop: the bottom of the stack handles the update.
handleBottom(stack) == stack[1]

\* StateHandler.Handle: the state it delegates to, stack[len(stack)-1].
handleTop(stack) == stack[Len(stack)]

\* Mutant of registerPanics: a taken name is not checked.
registerPanicsOnNilOnly(reg, state) == state = NilState

\* RegisterState: whether it panics.
registerPanics(reg, state) == state = NilState \/ state.ID \in DOMAIN reg

\* RegisterState: s.states[state.Name()] = state.
register(reg, state) ==
    [n \in DOMAIN reg \cup {state.ID} |-> IF n = state.ID THEN state ELSE reg[n]]

\* RegisterState(state): a nil state or a taken name panics.
RegisterState(state) ==
    /\ phase = "setup"
    /\ IF registerPanics(states, state)
        THEN /\ phase' = "panicked"
             /\ UNCHANGED states
        ELSE /\ states' = register(states, state)
             /\ UNCHANGED phase
    /\ UNCHANGED <<stateData, last, fresh, trans, storeVars, dispatchVars>>

\* Registration is over and updates are processed from here on.
Run ==
    /\ phase = "setup"
    /\ phase' = "running"
    /\ UNCHANGED <<stackVars, storeVars, dispatchVars>>

\* toState{state}.Go(ctx) with ctx.ChatKey() = key, called as the ToNext of
\* state via ("": called directly).
ToStateVia(key, state, via) ==
    /\ phase = "running"
    /\ state \in Range(states)
    /\ LET r == getStack(stateData, states, key)
           stack == toStateStack(r.stack, state)
           done == [NoOp EXCEPT !.op = "toState", !.key = key, !.via = via,
                                !.state = state.ID, !.before = r.stack,
                                !.dataBefore = stateData]
       IN  IF r.err # "nil"
           THEN /\ last' = [done EXCEPT !.err = r.err]
                /\ UNCHANGED stateData
           ELSE /\ stateData' = setStack(stateData, states, key, stack)
                /\ IF setStackErr(stateData, key) # "nil"
                   THEN last' = [done EXCEPT !.err = setStackErr(stateData, key)]
                   ELSE \E rerr \in RenderOutcomes :
                        last' = [done EXCEPT
                                 !.rendered = <<Call(state.ID, rerr)>>,
                                 !.err = rerr]
    /\ UNCHANGED <<phase, states, fresh, trans, storeVars, dispatchVars>>

\* toState{state}.Go(ctx) with ctx.ChatKey() = key.
ToStateGo(key, state) == ToStateVia(key, state, "")

\* back{}.Go(ctx) with ctx.ChatKey() = key, called as the ToNext of state via
\* ("": called directly).
BackVia(key, via) ==
    /\ phase = "running"
    /\ LET r == getStack(stateData, states, key)
           stack == backStack(r.stack)
           done == [NoOp EXCEPT !.op = "back", !.key = key, !.via = via,
                                !.before = r.stack, !.dataBefore = stateData]
       IN  IF r.err # "nil"
           THEN /\ last' = [done EXCEPT !.err = r.err]
                /\ UNCHANGED stateData
           ELSE IF backReturnsEarly(r.stack)
           THEN /\ last' = done
                /\ UNCHANGED stateData
           ELSE /\ stateData' = setStack(stateData, states, key, stack)
                /\ IF setStackErr(stateData, key) # "nil"
                   THEN last' = [done EXCEPT !.err = setStackErr(stateData, key)]
                   ELSE IF Len(stack) > 0
                   THEN \E rerr \in RenderOutcomes :
                        last' = [done EXCEPT
                                 !.rendered = <<Call(stack[Len(stack)].ID, rerr)>>,
                                 !.err = rerr]
                   ELSE last' = done
    /\ UNCHANGED <<phase, states, fresh, trans, storeVars, dispatchVars>>

\* back{}.Go(ctx) with ctx.ChatKey() = key.
BackGo(key) == BackVia(key, "")

\* s.ToNext.Go(ctx), called by a handler of the registered state name, with
\* ctx.ChatKey() = key.
NextGo(key, name) ==
    /\ name \in DOMAIN states
    /\ states[name].ToNext # NilTransition
    /\ IF states[name].ToNext.kind = "toState"
       THEN /\ states[name].ToNext.state \in DOMAIN states
            /\ ToStateVia(key, states[states[name].ToNext.state], name)
       ELSE BackVia(key, name)

\* Mutant of withNext: Next is never set.
withNextUnset(state, t) == state

\* RegisterAndChainStates' loop body: if t != nil { *states[i].Next() = t }.
withNext(state, t) ==
    IF t # NilTransition THEN [state EXCEPT !.ToNext = t] ELSE state

RECURSIVE chainFrom(_, _, _, _)
\* RegisterAndChainStates' loop from index i down, with t the transition to
\* the state registered last: the registry, the transition returned, and
\* whether a RegisterState panicked.
chainFrom(reg, chain, i, t) ==
    IF i = 0 THEN [reg |-> reg, t |-> t, panicked |-> FALSE]
    ELSE LET state == withNext(chain[i], t)
         IN  IF registerPanics(reg, state)
             THEN [reg |-> reg, t |-> t, panicked |-> TRUE]
             ELSE chainFrom(register(reg, state), chain, i - 1,
                            ToStateTransition(state.ID))

\* RegisterAndChainStates(chain...): panics for no state at all and when a
\* RegisterState panics (the states after it in the chain stay registered).
RegisterAndChainStates(chain) ==
    /\ phase = "setup"
    /\ LET r == IF Len(chain) = 0
                THEN [reg |-> states, t |-> NilTransition, panicked |-> TRUE]
                ELSE chainFrom(states, chain, Len(chain), NilTransition)
       IN  /\ states' = r.reg
           /\ phase' = IF r.panicked THEN "panicked" ELSE phase
           \* last.state: the state the returned toState transition goes to
           /\ last' = [NoOp EXCEPT !.op = "RegisterAndChainStates",
                                   !.state = IF r.panicked THEN "" ELSE r.t.state,
                                   !.err = IF r.panicked THEN "panic" ELSE "nil"]
    /\ UNCHANGED <<stateData, fresh, trans, storeVars, dispatchVars>>

\* StateHandler.Handle(ctx) with ctx.ChatKey() = key.
Handle(key) ==
    /\ phase = "running"
    /\ LET r == getStack(stateData, states, key)
           done == [NoOp EXCEPT !.op = "Handle", !.key = key, !.before = r.stack,
                                !.dataBefore = stateData]
       IN  /\ IF r.err # "nil"
              THEN last' = [done EXCEPT !.err = r.err]
              ELSE IF handleDeclines(r)
              THEN last' = [done EXCEPT !.err = "ErrPass"]
              ELSE \E herr \in HandleOutcomes :
                   last' = [done EXCEPT
                            !.handled = <<Call(handleTop(r.stack).ID, herr)>>,
                            !.err = herr]
           /\ stateData' = handleStorage(stateData, states, key, r.stack)
    /\ UNCHANGED <<phase, states, fresh, trans, storeVars, dispatchVars>>

\* A goroutine's call of Transition.Go, step by step: before is the stack
\* getStack returned, stack the local variable stack once it is modified,
\* atRender what the storage held for the chat when Render was called.
IdleGo == [pc |-> "idle", kind |-> "", key |-> "", state |-> "",
           before |-> <<>>, stack |-> <<>>, rendered |-> <<>>,
           atRender |-> NoBlob, err |-> "nil"]

\* toState.Go and back.Go up to the modification of the local stack: getStack,
\* the early returns, and stack[:idx+1], append or stack[:len(stack)-1].
GoGetStack(w, t, key) ==
    /\ phase = "running"
    /\ trans[w].pc = "idle"
    /\ t.kind = "toState" => t.state \in DOMAIN states
    /\ LET r == getStack(stateData, states, key)
           call == [IdleGo EXCEPT !.kind = t.kind, !.key = key,
                                  !.state = t.state, !.before = r.stack]
       IN  trans' = [trans EXCEPT ![w] =
                IF r.err # "nil" THEN [call EXCEPT !.pc = "done", !.err = r.err]
                ELSE IF t.kind = "toState"
                    THEN [call EXCEPT !.pc = "read",
                            !.stack = toStateStack(r.stack, states[t.state])]
                ELSE IF backReturnsEarly(r.stack) THEN [call EXCEPT !.pc = "done"]
                ELSE [call EXCEPT !.pc = "read", !.stack = backStack(r.stack)]]
    /\ UNCHANGED <<phase, states, stateData, last, fresh, storeVars,
                   dispatchVars>>

\* toState.Go and back.Go: setStack of the local stack; back.Go returns nil
\* when the stack it wrote is empty.
GoSetStack(w) ==
    /\ phase = "running"
    /\ trans[w].pc = "read"
    /\ stateData' = setStack(stateData, states, trans[w].key, trans[w].stack)
    /\ trans' = [trans EXCEPT
                    ![w].pc = IF \/ setStackErr(stateData, trans[w].key) # "nil"
                                 \/ trans[w].kind = "back" /\ Len(trans[w].stack) = 0
                              THEN "done" ELSE "written",
                    ![w].err = setStackErr(stateData, trans[w].key)]
    /\ UNCHANGED <<phase, states, last, fresh, storeVars, dispatchVars>>

\* toState.Go: return t.state.Render(ctx); back.Go: return
\* stack[len(stack)-1].Render(ctx).
GoRender(w, rerr) ==
    /\ phase = "running"
    /\ trans[w].pc = "written"
    /\ LET name == IF trans[w].kind = "toState" THEN trans[w].state
                   ELSE trans[w].stack[Len(trans[w].stack)].ID
       IN  trans' = [trans EXCEPT ![w].pc = "done",
                                  ![w].rendered = <<Call(name, rerr)>>,
                                  ![w].atRender = stateData[trans[w].key],
                                  ![w].err = rerr]
    /\ UNCHANGED <<phase, states, stateData, last, fresh, storeVars,
                   dispatchVars>>

\* ------------------------------------------------------------------------
\* memoryStore (the in-memory DataStorage) and Get
\* ------------------------------------------------------------------------

EmptyMap == [k \in DataKeys |-> NoValue]

\* The smallest reference not in use.
NewRef(h) ==
    CHOOSE r \in 1..(Cardinality(DOMAIN h) + 1) :
        r \notin DOMAIN h /\ \A q \in 1..(r - 1) : q \in DOMAIN h

\* The heap without the maps that neither m.data nor a goroutine refers to.
Collect(h, d, o) ==
    [r \in ({d[c] : c \in ChatKeys} \cup {o[w].d : w \in Workers}) \cap DOMAIN h
        |-> h[r]]

\* Mutant of loadOrStore: every chat shares the first chat's map.
loadOrStoreShared(d, h, chatKey) ==
    LET any == {c \in ChatKeys : d[c] # 0}
    IN  IF any # {}
        THEN LET c == CHOOSE c \in any : TRUE
             IN  [data |-> [d EXCEPT ![chatKey] = d[c]], heap |-> h, ref |-> d[c]]
        ELSE LET r == NewRef(h)
             IN  [data |-> [d EXCEPT ![chatKey] = r],
                  heap |-> [q \in DOMAIN h \cup {r} |->
                               IF q = r THEN EmptyMap ELSE h[q]],
                  ref |-> r]

\* m.data.LoadOrStore(chatKey, &sync.Map{}): the chat's map, a new empty one
\* (stored in m.data) if it had none.
loadOrStore(d, h, chatKey) ==
    IF d[chatKey] # 0
    THEN [data |-> d, heap |-> h, ref |-> d[chatKey]]
    ELSE LET r == NewRef(h)
         IN  [data |-> [d EXCEPT ![chatKey] = r],
              heap |-> [q \in DOMAIN h \cup {r} |->
                           IF q = r THEN EmptyMap ELSE h[q]],
              ref |-> r]

\* Mutant of clearData: nothing is deleted.
clearDataKeeps(d, chatKey) == d

\* ClearData: m.data.Delete(chatKey).
clearData(d, chatKey) == [d EXCEPT ![chatKey] = 0]

\* RemoveData: data.Delete(key) on the chat's map.
removeEntry(m, key) == [m EXCEPT ![key] = NoValue]

\* A goroutine's call: for Get, want is the T of its DataKey[T], val the
\* result (NoValue: T's zero value) and err the error.
Idle == [pc |-> "idle", op |-> "", chatKey |-> "", key |-> "", want |-> "",
         value |-> NoValue, d |-> 0, err |-> "nil", val |-> NoValue]

\* A panic in a goroutine, which nothing recovers, ends the process.
Alive == \A w \in Workers : ops[w].pc # "panicked"

\* A goroutine can start a call when it is in none. Set, Remove and Clear
\* return nil and leave the goroutine idle; a Get that has returned keeps its
\* result (err, val) until the goroutine's next call.
Free(w) == Alive /\ ops[w].pc \in {"idle", "done"}

\* Whether it is goroutine w's turn to take the second step of call op.
Loaded(w, op) == Alive /\ ops[w].pc = "loaded" /\ ops[w].op = op

\* Mutant of getDataResult: the value is copied out whatever its type.
getDataResultUnchecked(call, v) ==
    IF v = NoValue
        THEN [call EXCEPT !.pc = "done", !.d = 0, !.err = "ErrDataKeyNotFound"]
    ELSE [call EXCEPT !.pc = "done", !.d = 0, !.val = v]

\* GetData after data.Load(key) found v, and Get's wrapping of its error:
\* reflect.ValueOf(v).Type() panics for the nil interface value
\* (reflect.ValueOf(nil) is the zero Value); a value whose type is not
\* assignable to T is an error and the result stays T's zero value; any other
\* value is copied out.
getDataResult(call, v) ==
    IF v = NoValue
        THEN [call EXCEPT !.pc = "done", !.d = 0, !.err = "ErrDataKeyNotFound"]
    ELSE IF v.type = "<nil>"
        THEN [call EXCEPT !.pc = "panicked", !.d = 0,
                          !.err = "panic: reflect.Value.Type on zero Value"]
    ELSE IF ~AssignableTo(v.type, call.want)
        THEN [call EXCEPT !.pc = "done", !.d = 0,
                          !.err = "failed to get data: not assignable"]
    ELSE [call EXCEPT !.pc = "done", !.d = 0, !.val = v]

\* Set / SetData, first step: LoadOrStore of the chat's map.
SetDataLoadOrStore(w, chatKey, key, value) ==
    /\ Free(w)
    /\ LET l == loadOrStore(data, heap, chatKey)
           o == [ops EXCEPT ![w] = [Idle EXCEPT !.pc = "loaded", !.op = "Set",
                                    !.chatKey = chatKey, !.key = key,
                                    !.value = value, !.d = l.ref]]
       IN  /\ data' = l.data
           /\ ops' = o
           /\ heap' = Collect(l.heap, l.data, o)

\* Set / SetData, second step: data.Store(key, value); returns nil.
SetDataStore(w) ==
    /\ Loaded(w, "Set")
    /\ LET o == [ops EXCEPT ![w] = Idle]
           h == [heap EXCEPT ![ops[w].d][ops[w].key] = ops[w].value]
       IN  /\ ops' = o
           /\ heap' = Collect(h, data, o)
    /\ UNCHANGED data

\* Get / GetData, first step: m.data.Load(chatKey).
GetDataLoad(w, chatKey, key, want) ==
    /\ Free(w)
    /\ LET call == [Idle EXCEPT !.op = "Get", !.chatKey = chatKey, !.key = key,
                                !.want = want]
           o == IF data[chatKey] = 0
                THEN [ops EXCEPT ![w] = [call EXCEPT !.pc = "done",
                                         !.err = "ErrDataKeyNotFound"]]
                ELSE [ops EXCEPT ![w] = [call EXCEPT !.pc = "loaded",
                                         !.d = data[chatKey]]]
       IN  /\ ops' = o
           /\ heap' = Collect(heap, data, o)
    /\ UNCHANGED data

\* Get / GetData, second step: data.Load(key) and the assignment to the
\* caller's result.
GetDataLoadKey(w) ==
    /\ Loaded(w, "Get")
    /\ LET v == heap[ops[w].d][ops[w].key]
           o == [ops EXCEPT ![w] = getDataResult(@, v)]
       IN  /\ ops' = o
           /\ heap' = Collect(heap, data, o)
    /\ UNCHANGED data

\* Remove / RemoveData, first step: LoadOrStore of the chat's map.
RemoveDataLoadOrStore(w, chatKey, key) ==
    /\ Free(w)
    /\ LET l == loadOrStore(data, heap, chatKey)
           o == [ops EXCEPT ![w] = [Idle EXCEPT !.pc = "loaded", !.op = "Remove",
                                    !.chatKey = chatKey, !.key = key,
                                    !.d = l.ref]]
       IN  /\ data' = l.data
           /\ ops' = o
           /\ heap' = Collect(l.heap, l.data, o)

\* Remove / RemoveData, second step: data.Delete(key); returns nil.
RemoveDataDelete(w) ==
    /\ Loaded(w, "Remove")
    /\ LET o == [ops EXCEPT ![w] = Idle]
           h == [heap EXCEPT ![ops[w].d] = removeEntry(@, ops[w].key)]
       IN  /\ ops' = o
           /\ heap' = Collect(h, data, o)
    /\ UNCHANGED data

\* Mutant of clearStack: Clear also forgets the chat's state stack.
clearStackReset(m, chatKey) == [m EXCEPT ![chatKey] = NoBlob]

\* The state storage after Clear / ClearData: the call deletes from
\* memoryStore.data only.
clearStack(m, chatKey) == m

\* Clear / ClearData: m.data.Delete(chatKey); returns nil.
ClearData(w, chatKey) ==
    /\ Free(w)
    /\ LET o == [ops EXCEPT ![w] = Idle]
           d == clearData(data, chatKey)
       IN  /\ data' = d
           /\ ops' = o
           /\ heap' = Collect(heap, d, o)

\* What GetData finds for (chatKey, key) now: the value, or NoValue where it
\* returns ErrDataKeyNotFound.
Lookup(chatKey, key) ==
    IF data[chatKey] = 0 THEN NoValue ELSE heap[data[chatKey]][key]

InitStore ==
    /\ data = [c \in ChatKeys |-> 0]
    /\ heap = <<>>
    /\ ops = [w \in Workers |-> Idle]
    /\ latest = [c \in ChatKeys |-> EmptyMap]
    /\ hist = <<>>

\* ------------------------------------------------------------------------
\* App: the handler chain, Run, processUpdate, Stop
\* ------------------------------------------------------------------------

\* An update as the dispatcher sees it: what extractChatInfo returns for it.
Update(chatKey, ok) == [chatKey |-> chatKey, ok |-> ok]
Updates == {Update("c1", TRUE), Update("", FALSE)}

\* A call of a chain handler's Handle: its position in the chain and what it
\* returned.
HandlerCall(pos, err) == [pos |-> pos, err |-> err]

\* The goroutine of one update: processUpdate's locals (err, handler as the
\* chain position, 0 for nil), the handlers called so far and what was logged.
NewTask(update) ==
    [update |-> update, pc |-> "spawned", next |-> 1, err |-> "nil",
     handler |-> 0, calls |-> <<>>, log |-> "", logHandler |-> ""]

\* Mutant of loopContinues: every error passes the update on.
loopContinuesOnAnyError(err) == err # "nil"

\* processUpdate's loop: errors.Is(err, ErrPass) continues with the next
\* handler, anything else breaks.
loopContinues(err) == err = "ErrPass"

\* Mutant of Logged: a failure is attributed to the first handler of the
\* chain, whichever handler returned it.
LoggedForFirst(task, err, pos) ==
    IF err = "nil" THEN [task EXCEPT !.pc = "done"]
    ELSE IF err = "ErrPass"
        THEN [task EXCEPT !.pc = "done", !.log = "update was not handled"]
    ELSE [task EXCEPT !.pc = "done", !.log = "failed to handle update",
                      !.logHandler = IF pos = 0 THEN "<nil>" ELSE handlers[1]]

\* processUpdate after its loop: what is logged, and for which handler.
Logged(task, err, pos) ==
    IF err = "nil" THEN [task EXCEPT !.pc = "done"]
    ELSE IF err = "ErrPass"
        THEN [task EXCEPT !.pc = "done", !.log = "update was not handled"]
    ELSE [task EXCEPT !.pc = "done", !.log = "failed to handle update",
                      !.logHandler = IF pos = 0 THEN "<nil>" ELSE handlers[pos]]

\* Mutant of contextIsNil: a context is made whatever extractChatInfo says.
contextNeverNil(update) == FALSE

\* newContext returns nil exactly when extractChatInfo's ok is false.
contextIsNil(update) == ~update.ok

\* App.Handle(handler): appends to the chain (before Run).
AppHandle(name) ==
    /\ phase = "setup"
    /\ Len(handlers) < MaxHandlers
    /\ handlers' = Append(handlers, name)
    /\ UNCHANGED <<phase, stackVars, storeVars, updatesChan, closed, wg, tasks,
                   stopped, received>>

\* The transport sends an update on the channel.
Send(update) ==
    /\ phase # "panicked"
    /\ ~closed
    /\ Len(updatesChan) + Len(received) + Len(tasks) < MaxUpdates
    /\ updatesChan' = Append(updatesChan, update)
    /\ UNCHANGED <<phase, stackVars, storeVars, handlers, closed, wg, tasks,
                   stopped, received>>

\* The transport closes the channel.
Close ==
    /\ phase # "panicked"
    /\ ~closed
    /\ closed' = TRUE
    /\ UNCHANGED <<phase, stackVars, storeVars, handlers, updatesChan, wg, tasks,
                   stopped, received>>

\* Run's loop head: receive an update from the channel.
RunReceive ==
    /\ phase = "running"
    /\ Len(received) = 0
    /\ Len(updatesChan) > 0
    /\ updatesChan' = Tail(updatesChan)
    /\ received' = <<Head(updatesChan)>>
    /\ UNCHANGED <<phase, stackVars, storeVars, handlers, closed, wg, tasks,
                   stopped>>

\* Run's loop body: wg.Add(1) and hand the task to the executor
\* (DefaultExecutor: go f()).
RunExecute ==
    /\ phase = "running"
    /\ Len(received) = 1
    /\ wg' = wg + 1
    /\ tasks' = Append(tasks, NewTask(received[1]))
    /\ received' = <<>>
    /\ UNCHANGED <<phase, stackVars, storeVars, handlers, updatesChan, closed,
                   stopped>>

\* Mutant of runLoopEnds: Run also waits for the goroutines it started.
runLoopEndsWhenIdle == closed /\ Len(updatesChan) = 0 /\ wg = 0

\* Run's `for update := range a.updatesChan` ends when the channel is closed
\* and nothing is left in it.
runLoopEnds == closed /\ Len(updatesChan) = 0

\* Run returns: the channel is closed and drained.
RunReturn ==
    /\ phase = "running"
    /\ Len(received) = 0
    /\ runLoopEnds
    /\ phase' = "returned"
    /\ UNCHANGED <<stackVars, storeVars, dispatchVars>>

\* Mutant of wgDone: the goroutine ends without wg.Done.
wgDoneSkipped(counter) == counter

\* The deferred a.wg.Done() of the goroutine Run started for an update.
wgDone(counter) == counter - 1

\* processUpdate, up to its loop: newContext; a nil context ends the task
\* (the deferred wg.Done runs), as does an empty chain.
NewContext(t) ==
    /\ phase # "panicked"
    /\ tasks[t].pc = "spawned"
    /\ IF contextIsNil(tasks[t].update)
       THEN /\ tasks' = [tasks EXCEPT ![t].pc = "done",
                                      ![t].log = "could not determine context"]
            /\ wg' = wgDone(wg)
       ELSE IF Len(handlers) = 0
       THEN /\ tasks' = [tasks EXCEPT ![t] = Logged(@, "nil", 0)]
            /\ wg' = wgDone(wg)
       ELSE /\ tasks' = [tasks EXCEPT ![t].pc = "loop"]
            /\ UNCHANGED wg
    /\ UNCHANGED <<phase, stackVars, storeVars, handlers, updatesChan, closed,
                   stopped, received>>

\* One iteration of processUpdate's loop: handler = h, err = h.Handle(ctx);
\* after the last iteration, the logging and the deferred wg.Done.
CallHandler(t, err) ==
    /\ phase # "panicked"
    /\ tasks[t].pc = "loop"
    /\ LET pos == tasks[t].next
           called == [tasks[t] EXCEPT !.handler = pos, !.err = err,
                                      !.calls = Append(@, HandlerCall(pos, err)),
                                      !.next = pos + 1]
       IN  IF loopContinues(err) /\ pos < Len(handlers)
           THEN /\ tasks' = [tasks EXCEPT ![t] = called]
                /\ UNCHANGED wg
           ELSE /\ tasks' = [tasks EXCEPT ![t] = Logged(called, err, pos)]
                /\ wg' = wgDone(wg)
    /\ UNCHANGED <<phase, stackVars, storeVars, handlers, updatesChan, closed,
                   stopped, received>>

\* Whether a panic in the goroutine of an update ends the process: nothing
\* in Run, processUpdate or DefaultExecutor recovers.
panicEndsProcess == TRUE

\* h.Handle(ctx) panics in an iteration of processUpdate's loop: the deferred
\* wg.Done runs while the goroutine unwinds and, as nothing recovers, the
\* process ends.
HandlerPanics(t) ==
    /\ phase # "panicked"
    /\ tasks[t].pc = "loop"
    /\ LET pos == tasks[t].next
       IN  tasks' = [tasks EXCEPT ![t].pc = "panicked", ![t].handler = pos,
                                  ![t].calls = Append(@, HandlerCall(pos, "panic"))]
    /\ wg' = wgDone(wg)
    /\ phase' = IF panicEndsProcess THEN "panicked" ELSE phase
    /\ UNCHANGED <<stackVars, storeVars, handlers, updatesChan, closed, stopped,
                   received>>

\* Mutant of waitReturns: Stop never blocks.
waitReturnsAtOnce(counter) == TRUE

\* wg.Wait() returns once the counter is zero.
waitReturns(counter) == counter = 0

\* Stop: wg.Wait() returns once the counter is zero.
Stop ==
    /\ phase \notin {"setup", "panicked"}
    /\ stopped = "no"
    /\ waitReturns(wg)
    /\ stopped' = IF phase = "returned" THEN "after Run"
                  ELSE IF closed THEN "after close" ELSE "before close"
    /\ UNCHANGED <<phase, stackVars, storeVars, handlers, updatesChan, closed,
                   wg, tasks, received>>

InitDispatch ==
    /\ handlers = <<>>
    /\ updatesChan = <<>>
    /\ closed = FALSE
    /\ wg = 0
    /\ tasks = <<>>
    /\ stopped = "no"
    /\ received = <<>>

\* ------------------------------------------------------------------------
\* The data storage used by one goroutine: calls one after the other
\* ------------------------------------------------------------------------

Values(chatKey) ==
    {Value(chatKey, n) : n \in 1..NumValues}
        \cup {TypedValue(chatKey, "int", 1), NilValue(chatKey)}

\* A StateHandler whose storage holds nothing yet.
InitStackEmpty ==
    /\ phase = "setup"
    /\ trans = [w \in Workers |-> IdleGo]
    /\ states = <<>>
    /\ stateData = [k \in ChatKeys |-> NoBlob]
    /\ fresh = ChatKeys
    /\ last = NoOp

StoreSeqInit == InitStore /\ InitStackEmpty /\ InitDispatch

StoreSeqNext ==
    \/ /\ \E c \in ChatKeys, k \in DataKeys :
            \E v \in Values(c) : SetDataLoadOrStore("w1", c, k, v)
       /\ UNCHANGED <<latest, hist, phase, stackVars, dispatchVars>>
    \/ /\ SetDataStore("w1")
       /\ latest' = [latest EXCEPT ![ops["w1"].chatKey][ops["w1"].key] =
                                        ops["w1"].value]
       /\ UNCHANGED <<hist, phase, stackVars, dispatchVars>>
    \/ /\ \E c \in ChatKeys, k \in DataKeys, T \in KeyTypes :
            GetDataLoad("w1", c, k, T)
       /\ UNCHANGED <<latest, hist, phase, stackVars, dispatchVars>>
    \/ /\ GetDataLoadKey("w1")
       /\ UNCHANGED <<latest, hist, phase, stackVars, dispatchVars>>
    \/ /\ \E c \in ChatKeys, k \in DataKeys : RemoveDataLoadOrStore("w1", c, k)
       /\ UNCHANGED <<latest, hist, phase, stackVars, dispatchVars>>
    \/ /\ RemoveDataDelete("w1")
       /\ latest' = [latest EXCEPT ![ops["w1"].chatKey][ops["w1"].key] = NoValue]
       /\ UNCHANGED <<hist, phase, stackVars, dispatchVars>>
    \/ /\ \E c \in ChatKeys : /\ ClearData("w1", c)
                              /\ latest' = [latest EXCEPT ![c] = EmptyMap]
       /\ UNCHANGED <<hist, phase, stackVars, dispatchVars>>

StoreSeqSpec == StoreSeqInit /\ [][StoreSeqNext]_vars

\* ------------------------------------------------------------------------
\* The data storage used by concurrent goroutines (one per update)
\* ------------------------------------------------------------------------

StoreConcNext ==
    \/ /\ \E w \in Workers, c \in ChatKeys, k \in DataKeys :
            SetDataLoadOrStore(w, c, k, Value(c, 1))
       /\ UNCHANGED <<latest, hist, phase, stackVars, dispatchVars>>
    \/ /\ \E w \in Workers : SetDataStore(w)
       /\ UNCHANGED <<latest, hist, phase, stackVars, dispatchVars>>
    \/ /\ \E w \in Workers, c \in ChatKeys, k \in DataKeys :
            GetDataLoad(w, c, k, "string")
       /\ UNCHANGED <<latest, hist, phase, stackVars, dispatchVars>>
    \/ /\ \E w \in Workers : GetDataLoadKey(w)
       /\ UNCHANGED <<latest, hist, phase, stackVars, dispatchVars>>
    \/ /\ \E w \in Workers, c \in ChatKeys, k \in DataKeys :
            RemoveDataLoadOrStore(w, c, k)
       /\ UNCHANGED <<latest, hist, phase, stackVars, dispatchVars>>
    \/ /\ \E w \in Workers : RemoveDataDelete(w)
       /\ UNCHANGED <<latest, hist, phase, stackVars, dispatchVars>>
    \/ /\ \E w \in Workers, c \in ChatKeys : ClearData(w, c)
       /\ UNCHANGED <<latest, hist, phase, stackVars, dispatchVars>>

StoreConcSpec == StoreSeqInit /\ [][StoreConcNext]_vars

\* ------------------------------------------------------------------------
\* The data storage of one chat used by concurrent goroutines, with the
\* history of the calls
\* ------------------------------------------------------------------------

\* The chat whose updates the sequential specification processes.
TheChat == "c1"

\* Most data storage calls in a history.
MaxCalls == 3

\* The calls that have returned.
Returned == {i \in 1..Len(hist) : hist[i].done}

\* A call as it is started by goroutine w.
StartedCall(w, op, key, value) ==
    [w |-> w, op |-> op, key |-> key, value |-> value, after |-> Returned,
     done |-> FALSE, err |-> "nil", val |-> NoValue]

\* The history once the call goroutine w is in has returned (err, val).
Finished(w, err, val) ==
    LET i == CHOOSE i \in 1..Len(hist) : hist[i].w = w /\ ~hist[i].done
    IN  [hist EXCEPT ![i].done = TRUE, ![i].err = err, ![i].val = val]

\* What the chat's data is at the start: nothing, or a value under each key
\* (left by earlier Sets, which latest records).
StoreLinInit ==
    /\ ops = [w \in Workers |-> Idle]
    /\ hist = <<>>
    /\ \/ /\ data = [c \in ChatKeys |-> 0]
          /\ heap = <<>>
          /\ latest = [c \in ChatKeys |-> EmptyMap]
       \/ /\ data = [c \in ChatKeys |-> IF c = TheChat THEN 1 ELSE 0]
          /\ heap = [r \in {1} |-> [k \in DataKeys |-> Value(TheChat, 1)]]
          /\ latest = [c \in ChatKeys |->
                        IF c = TheChat THEN [k \in DataKeys |-> Value(TheChat, 1)]
                        ELSE EmptyMap]
    /\ InitStackEmpty
    /\ InitDispatch

StoreLinNext ==
    \/ /\ Len(hist) < MaxCalls
       /\ \E w \in Workers, k \in DataKeys :
            /\ SetDataLoadOrStore(w, TheChat, k, Value(TheChat, 2))
            /\ hist' = Append(hist, StartedCall(w, "Set", k, Value(TheChat, 2)))
       /\ UNCHANGED <<latest, phase, stackVars, dispatchVars>>
    \/ /\ \E w \in Workers : SetDataStore(w) /\ hist' = Finished(w, "nil", NoValue)
       /\ UNCHANGED <<latest, phase, stackVars, dispatchVars>>
    \/ /\ Len(hist) < MaxCalls
       /\ \E w \in Workers, k \in DataKeys :
            /\ GetDataLoad(w, TheChat, k, "string")
            /\ hist' = Append(hist,
                    [StartedCall(w, "Get", k, NoValue) EXCEPT
                        !.done = ops'[w].pc = "done", !.err = ops'[w].err])
       /\ UNCHANGED <<latest, phase, stackVars, dispatchVars>>
    \/ /\ \E w \in Workers :
            GetDataLoadKey(w) /\ hist' = Finished(w, ops'[w].err, ops'[w].val)
       /\ UNCHANGED <<latest, phase, stackVars, dispatchVars>>
    \/ /\ Len(hist) < MaxCalls
       /\ \E w \in Workers, k \in DataKeys :
            /\ RemoveDataLoadOrStore(w, TheChat, k)
            /\ hist' = Append(hist, StartedCall(w, "Remove", k, NoValue))
       /\ UNCHANGED <<latest, phase, stackVars, dispatchVars>>
    \/ /\ \E w \in Workers : RemoveDataDelete(w) /\ hist' = Finished(w, "nil", NoValue)
       /\ UNCHANGED <<latest, phase, stackVars, dispatchVars>>
    \/ /\ Len(hist) < MaxCalls
       /\ \E w \in Workers :
            /\ ClearData(w, TheChat)
            /\ hist' = Append(hist, [StartedCall(w, "Clear", "", NoValue) EXCEPT
                                        !.done = TRUE])
       /\ UNCHANGED <<latest, phase, stackVars, dispatchVars>>

StoreLinSpec == StoreLinInit /\ [][StoreLinNext]_vars

\* ------------------------------------------------------------------------
\* The state stack machine on its own: one chat's transitions and events,
\* one after the other
\* ------------------------------------------------------------------------

RECURSIVE SeqsUpTo(_, _)
SeqsUpTo(S, n) ==
    IF n = 0 THEN {<<>>}
    ELSE LET shorter == SeqsUpTo(S, n - 1)
         IN  shorter \cup {Append(q, x) : q \in shorter, x \in S}

NoDup(q) == \A i, j \in 1..Len(q) : q[i] = q[j] => i = j

\* What a StateStorage may hold for a chat when the process starts: nothing,
\* a stack written by an earlier process (toState.Go never writes a name
\* twice, but that process's registry may have differed), or bytes that are
\* no JSON array of strings.
CorruptBlobs == {<<>>, <<LBracket, JSONNumber, RBracket>>,
                 <<LBracket, JSONString("main")>>}
PersistedBlobs ==
    {Marshal(q) : q \in {p \in SeqsUpTo(StateNames, MaxStored) : NoDup(p)}}
        \cup {<<LBracket, RBracket>>} \cup CorruptBlobs

InitStack ==
    /\ phase = "setup"
    /\ trans = [w \in Workers |-> IdleGo]
    /\ states = <<>>
    /\ stateData \in {[k \in ChatKeys |-> IF k = TheChat THEN b ELSE NoBlob] :
                        b \in {NoBlob} \cup {Blob(b) : b \in PersistedBlobs}}
    /\ fresh = {k \in ChatKeys : ~stateData[k].present}
    /\ last = NoOp

Init == InitStack /\ InitStore /\ InitDispatch

Next ==
    \/ \E state \in States \cup {SecondMain, NilState} : RegisterState(state)
    \/ Run
    \/ \E state \in Range(states) : ToStateGo(TheChat, state)
    \/ BackGo(TheChat)
    \/ Handle(TheChat)

Spec == Init /\ [][Next]_vars

\* ------------------------------------------------------------------------
\* The state stack machine used by concurrent goroutines: each goroutine makes
\* one transition, step by step
\* ------------------------------------------------------------------------

\* Every name is registered, the chat has a stack that earlier transitions
\* left (or none), and last remembers the storage as it was at the start.
StackConcInit ==
    /\ phase = "running"
    /\ states = [n \in StateNames |-> State(n, 1, NilTransition)]
    /\ stateData \in {[k \in ChatKeys |-> IF k = TheChat THEN b ELSE NoBlob] :
            b \in {NoBlob} \cup
                  {Blob(Marshal(q)) :
                      q \in {p \in SeqsUpTo(StateNames, MaxStored) : NoDup(p)}}}
    /\ fresh = {k \in ChatKeys : ~stateData[k].present}
    /\ last = [NoOp EXCEPT !.dataBefore = stateData]
    /\ trans = [w \in Workers |-> IdleGo]
    /\ InitStore
    /\ InitDispatch

\* The transitions a handler can hold: Back() and what RegisterState returned.
Transitions == {BackTransition} \cup {ToStateTransition(n) : n \in DOMAIN states}

StackConcNext ==
    \/ \E w \in Workers, t \in Transitions, key \in ChatKeys : GoGetStack(w, t, key)
    \/ \E w \in Workers : GoSetStack(w)
    \/ \E w \in Workers, rerr \in RenderOutcomes : GoRender(w, rerr)

StackConcSpec == StackConcInit /\ [][StackConcNext]_vars

\* ------------------------------------------------------------------------
\* The state stack machine with chained states
\* ------------------------------------------------------------------------

\* Longest argument list of RegisterAndChainStates.
MaxChain == 2

\* The ChainableState values application code builds: ToNext is left nil or
\* set to Back() by the constructor.
ChainableStates ==
    {State(n, 1, next) : n \in StateNames, next \in {NilTransition, BackTransition}}

ChainArgs == SeqsUpTo(ChainableStates, MaxChain)

ChainInit == InitStackEmpty /\ InitStore /\ InitDispatch

ChainNext ==
    \/ \E chain \in ChainArgs : RegisterAndChainStates(chain)
    \/ \E state \in States : RegisterState(state)
    \/ Run
    \/ \E state \in Range(states) : ToStateGo(TheChat, state)
    \/ \E name \in StateNames : NextGo(TheChat, name)
    \/ BackGo(TheChat)
    \/ Handle(TheChat)

ChainSpec == ChainInit /\ [][ChainNext]_vars

\* ------------------------------------------------------------------------
\* Properties of the state stack machine (checked under Spec)
\* ------------------------------------------------------------------------

\* The stack a read of the chat's persisted blob resolves to now.
CurStack(key) == getStack(stateData, states, key).stack

\* The names the chat's persisted blob parses to now.
CurNames(key) == Unmarshal(stateData[key].blob)

OnStack(stack, name) == \E i \in 1..Len(stack) : stack[i].ID = name

\* C2: toState(S).Go with S not on the chat's resolved stack leaves every
\* entry in place and in order, appends S as the last entry, and makes the
\* stack exactly one longer.
C2_ToStatePushes ==
    (last.op = "toState" /\ ~OnStack(last.before, last.state)) =>
        LET now == CurStack(last.key)
        IN  /\ Len(now) = Len(last.before) + 1
            /\ SubSeq(now, 1, Len(last.before)) = last.before
            /\ now[Len(now)] = states[last.state]

C2_Witness ==
    /\ last.op = "toState"
    /\ ~OnStack(last.before, last.state)
    /\ Len(last.before) = 2
    /\ Len(CurStack(last.key)) = 3

\* C3: toState(S).Go with S at index i of the chat's stack yields exactly the
\* entries up to and including S (no entry above S, S not duplicated), and a
\* second toState(S).Go right after the first yields the same stack again.
C3_ToStateTruncates ==
    last.op = "toState" =>
        LET now == CurStack(last.key)
            again == getStack(setStack(stateData, states, last.key,
                                       toStateStack(now, states[last.state])),
                              states, last.key).stack
        IN  /\ \A i \in 1..Len(last.before) :
                 last.before[i].ID = last.state =>
                    /\ now = SubSeq(last.before, 1, i)
                    /\ Cardinality({j \in 1..Len(now) : now[j].ID = last.state}) = 1
            /\ again = now

C3_Witness ==
    /\ last.op = "toState"
    /\ Len(last.before) = 3
    /\ last.before[1].ID = last.state
    /\ Len(CurStack(last.key)) = 1

\* C4: for a chat that started with no persisted stack, whatever toState.Go
\* and back.Go transitions have run, the persisted stack is a list of
\* registered names without repetition, no longer than the registry.
C4_StackBounded ==
    \A key \in fresh :
        stateData[key].present =>
            /\ ~CurNames(key).err
            /\ \A i \in 1..Len(CurNames(key).val) :
                 CurNames(key).val[i] \in DOMAIN states
            /\ NoDup(CurNames(key).val)
            /\ Len(CurNames(key).val) <= Cardinality(DOMAIN states)

C4_Witness ==
    /\ TheChat \in fresh
    /\ last.op = "toState"
    /\ Len(last.before) = Cardinality(StateNames)
    /\ Len(CurNames(TheChat).val) = 1

\* C5: back.Go on a stack of n >= 1 entries persists the first n-1 of them;
\* for n >= 2 it calls Render of the new top once and returns what Render
\* returned; for n = 1 the stack is empty afterwards (StateHandler.Handle
\* would decline), Render is not called and the result is nil.
C5_BackPops ==
    (last.op = "back" /\ Len(last.before) >= 1) =>
        LET n == Len(last.before)
            now == CurStack(last.key)
        IN  /\ now = SubSeq(last.before, 1, n - 1)
            /\ n >= 2 => last.rendered = <<Call(last.before[n - 1].ID, last.err)>>
            /\ n = 1 => /\ last.rendered = <<>>
                        /\ last.err = "nil"
                        /\ CurNames(last.key) = [err |-> FALSE, val |-> <<>>]
                        /\ handleDeclines(getStack(stateData, states, last.key))

C5_Witness ==
    /\ last.op = "back"
    /\ Len(last.before) = 3
    /\ last.rendered = <<Call(last.before[2].ID, "ErrRender")>>

\* C6: back.Go on a chat whose stack is empty or absent writes nothing to the
\* state storage, calls no Render and returns nil.
C6_BackOnEmptyIsNoop ==
    (last.op = "back" /\ Len(last.before) = 0) =>
        /\ stateData = last.dataBefore
        /\ last.rendered = <<>>
        /\ last.err = "nil"

C6_Witness ==
    /\ last.op = "back"
    /\ Len(last.before) = 0
    /\ ~last.dataBefore[last.key].present

\* C7: any sequence of registered states written with setStack is read back
\* by getStack, for the same chat key, as the same states in the same order
\* and without error; the empty sequence is read back as the nil stack.
C7_RoundTrip ==
    \A key \in ChatKeys :
        \A q \in SeqsUpTo(Range(states), MaxStack) :
            getStack(setStack(stateData, states, key, q), states, key)
                = [stack |-> q, err |-> "nil"]

C7_Witness ==
    /\ TheChat \in fresh
    /\ last.op = "Handle"
    /\ Len(last.before) = 3
    /\ last.dataBefore[TheChat] = Blob(Marshal(<<last.before[1].ID,
                                               last.before[2].ID,
                                               last.before[3].ID>>))

\* C8: a read of a persisted list that holds names missing from the registry
\* yields the registered entries only, in their order, and no error; when no
\* name resolves, StateHandler.Handle declines without delegating.
C8_ReadDropsUnknown ==
    (last.op # "none" /\ last.dataBefore[last.key].present) =>
        LET u == Unmarshal(last.dataBefore[last.key].blob)
            Known(n) == n \in DOMAIN states
            kept == SelectSeq(u.val, Known)
        IN  ~u.err =>
                /\ last.before = [i \in 1..Len(kept) |-> states[kept[i]]]
                /\ last.err # "failed to get stack"
                /\ (last.op = "Handle" /\ Len(kept) = 0) =>
                        (last.err = "ErrPass" /\ last.handled = <<>>)

C8_Witness ==
    /\ last.op = "Handle"
    /\ last.dataBefore[last.key].present
    /\ Len(Unmarshal(last.dataBefore[last.key].blob).val) = 3
    /\ Len(last.before) = 2
    /\ last.before[1].ID = Unmarshal(last.dataBefore[last.key].blob).val[1]
    /\ last.before[2].ID = Unmarshal(last.dataBefore[last.key].blob).val[3]

\* C16: StateHandler.Handle calls Handle of the top (last) entry of the chat's
\* resolved stack, of no other state, once, and returns what it returned; for
\* a chat with no stack or an empty one it calls no state and returns ErrPass.
C16_HandleDelegatesToTop ==
    last.op = "Handle" =>
        /\ stateData = last.dataBefore
        /\ IF Len(last.before) > 0
           THEN last.handled = <<Call(last.before[Len(last.before)].ID, last.err)>>
           ELSE last.handled = <<>> /\ last.err = "ErrPass"

C16_Witness ==
    /\ last.op = "Handle"
    /\ Len(last.before) = 3
    /\ last.handled = <<Call(last.before[3].ID, "ErrHandler")>>
    /\ last.err = "ErrHandler"

\* The chat's blob did not parse when the last operation read it.
ReadCorrupt ==
    /\ last.op # "none"
    /\ last.dataBefore[last.key].present
    /\ Unmarshal(last.dataBefore[last.key].blob).err

\* C17: when the chat's persisted blob does not parse, the operation sees no
\* active state and no error: StateHandler.Handle calls no state and returns
\* ErrPass; back.Go writes nothing, renders nothing and returns nil;
\* toState(S).Go replaces the blob with the encoding of the one-entry stack
\* [S] and renders S.
C17_CorruptBlobIsNoStack ==
    ReadCorrupt =>
        /\ last.before = <<>>
        /\ last.op = "Handle" =>
                /\ last.err = "ErrPass"
                /\ last.handled = <<>>
                /\ stateData = last.dataBefore
        /\ last.op = "back" =>
                /\ last.err = "nil"
                /\ last.rendered = <<>>
                /\ stateData = last.dataBefore
        /\ last.op = "toState" =>
                /\ stateData[last.key] = Blob(Marshal(<<last.state>>))
                /\ CurStack(last.key) = <<states[last.state]>>
                /\ last.rendered = <<Call(last.state, last.err)>>

C17_Witness ==
    /\ ReadCorrupt
    /\ last.op = "toState"
    /\ last.dataBefore[last.key] = Blob(<<LBracket, JSONString("main")>>)
    /\ stateData[last.key] = Blob(<<LBracket, JSONString("quiz"), RBracket>>)

\* C18: a RegisterState of nil or of a state whose name is taken panics and
\* leaves the registry as it was (the name still maps to the state that was
\* registered first); and the registry maps every name to one state, which
\* has that name.
C18_RegisterStateFailsFast ==
    /\ [][\A state \in States \cup {SecondMain, NilState} :
            (RegisterState(state) /\ (state = NilState \/ state.ID \in DOMAIN states))
                => (phase' = "panicked" /\ states' = states)]_vars
    /\ [](\A n \in DOMAIN states : states[n].ID = n /\ states[n] # NilState)
    /\ [][\A n \in DOMAIN states : n \in DOMAIN states' /\ states'[n] = states[n]]_vars

C18_Witness ==
    /\ phase = "panicked"
    /\ "main" \in DOMAIN states
    /\ states["main"] = SecondMain
    /\ Cardinality(DOMAIN states) = 2

\* ------------------------------------------------------------------------
\* Properties of the data storage
\* ------------------------------------------------------------------------

\* A call of Get by goroutine w has ended (returned or panicked).
GetEnded(w) == ops[w].op = "Get" /\ ops[w].pc \in {"done", "panicked"}

\* Whether a Get that wants T uses the DataKey[T] that v was Set with: a
\* nil interface value is Set (and read) with a DataKey[any], a string with
\* a DataKey[string], an int with a DataKey[int].
SameKey(v, T) == IF v.type = "<nil>" THEN T = "any" ELSE v.type = T

\* C9 (under StoreSeqSpec): after any sequence of Set, Remove and Clear, a Get
\* of (chat, key) returns ErrDataKeyNotFound when the key was never Set for
\* the chat or its latest Set was followed by a Remove of the key or a Clear
\* of the chat, and otherwise (read with the DataKey it was Set with) returns
\* nil and the value of that latest Set.
C9_GetReturnsLatestSet ==
    \A w \in Workers :
        GetEnded(w) =>
            LET expected == latest[ops[w].chatKey][ops[w].key]
            IN  IF expected = NoValue
                THEN ops[w].err = "ErrDataKeyNotFound" /\ ops[w].val = NoValue
                ELSE SameKey(expected, ops[w].want) =>
                        (ops[w].err = "nil" /\ ops[w].val = expected)

\* What does hold under StoreSeqSpec: the storage holds, for every chat and
\* key, the value of the latest Set that no Remove or Clear followed, and Get
\* returns it or ErrDataKeyNotFound, unless that value is the nil interface
\* value, for which Get panics.
GetReturnsLatestSetUnlessNil ==
    /\ \A w \in Workers :
        GetEnded(w) =>
            LET expected == latest[ops[w].chatKey][ops[w].key]
            IN  IF expected = NoValue
                THEN ops[w].err = "ErrDataKeyNotFound" /\ ops[w].val = NoValue
                ELSE IF expected.type = "<nil>" THEN ops[w].pc = "panicked"
                ELSE SameKey(expected, ops[w].want) =>
                        (ops[w].err = "nil" /\ ops[w].val = expected)
    /\ (\A w \in Workers : ops[w].pc # "loaded") =>
            \A c \in ChatKeys, k \in DataKeys : Lookup(c, k) = latest[c][k]

StoreStepFor(w, a) ==
    \/ \E k \in DataKeys : SetDataLoadOrStore(w, a, k, Value(a, 1))
    \/ SetDataStore(w) /\ ops[w].chatKey = a
    \/ \E k \in DataKeys : GetDataLoad(w, a, k, "string")
    \/ GetDataLoadKey(w) /\ ops[w].chatKey = a
    \/ \E k \in DataKeys : RemoveDataLoadOrStore(w, a, k)
    \/ RemoveDataDelete(w) /\ ops[w].chatKey = a
    \/ ClearData(w, a)

\* What Get returns now for each key of the chat.
View(chatKey) == [k \in DataKeys |-> Lookup(chatKey, k)]

\* C10 (under StoreConcSpec): however the goroutines interleave, no step of
\* a Set, Remove, Clear (or Get) made for chat a changes what Get returns for
\* any key of another chat b, and no Get for a chat returns, nor does the chat
\* hold, a value that was Set under another chat.
C10_IsolatedByChatKey ==
    /\ [][\A b \in ChatKeys :
            \/ View(b)' = View(b)
            \/ \A w \in Workers, a \in ChatKeys \ {b} : ~StoreStepFor(w, a)]_vars
    /\ [](\A w \in Workers :
            (ops[w].pc = "done" /\ ops[w].op = "Get" /\ ops[w].err = "nil") =>
                ops[w].val.by = ops[w].chatKey)
    /\ [](\A c \in ChatKeys, k \in DataKeys :
            Lookup(c, k) # NoValue => Lookup(c, k).by = c)

C10_Witness ==
    /\ ops["w1"].pc = "loaded" /\ ops["w1"].op = "Set" /\ ops["w1"].chatKey = "c1"
    /\ Lookup("c1", "category") = Value("c1", 1)
    /\ ops["w2"].pc = "done" /\ ops["w2"].op = "Get" /\ ops["w2"].chatKey = "c2"
    /\ ops["w2"].val = Value("c2", 1)

\* ------------------------------------------------------------------------
\* The dispatcher: updates run through the handler chain concurrently
\* ------------------------------------------------------------------------

DispatchInit == InitStackEmpty /\ InitStore /\ InitDispatch

DispatchNext ==
    \/ \E name \in HandlerNames :
            name = NthHandler(Len(handlers) + 1) /\ AppHandle(name)
    \/ Run
    \/ \E update \in Updates : Send(update)
    \/ Close
    \/ RunReceive
    \/ RunExecute
    \/ RunReturn
    \/ \E t \in 1..Len(tasks) : NewContext(t)
    \/ \E t \in 1..Len(tasks), err \in HandlerOutcomes : CallHandler(t, err)
    \/ \E t \in 1..Len(tasks) : HandlerPanics(t)
    \/ Stop

DispatchSpec == DispatchInit /\ [][DispatchNext]_vars

\* C1 (under DispatchSpec): for an update whose chat info can be extracted,
\* the handlers are called in registration order, each once, as long as they
\* return ErrPass; the first handler N that returns anything else (nil or an
\* error) ends the dispatch: the outcome is what N returned, attributed to N,
\* and no handler after N is called for the update.
C1_ChainStopsAtFirstNonPass ==
    \A t \in 1..Len(tasks) :
        tasks[t].update.ok =>
            LET c == tasks[t].calls
                n == Len(c)
            IN  /\ n <= Len(handlers)
                /\ \A i \in 1..n : c[i].pos = i
                /\ \A i \in 1..(n - 1) : c[i].err = "ErrPass"
                /\ tasks[t].pc = "loop" => \A i \in 1..n : c[i].err = "ErrPass"
                /\ tasks[t].pc = "done" =>
                    /\ n = 0 => Len(handlers) = 0
                    /\ (n > 0 /\ n < Len(handlers)) => c[n].err # "ErrPass"
                    /\ n > 0 => /\ tasks[t].err = c[n].err
                                /\ tasks[t].handler = n
                    /\ (n > 0 /\ c[n].err \notin {"nil", "ErrPass"}) =>
                            /\ tasks[t].log = "failed to handle update"
                            /\ tasks[t].logHandler = handlers[n]

C1_Witness ==
    /\ Len(handlers) = 3
    /\ \E t \in 1..Len(tasks) :
        /\ tasks[t].pc = "done"
        /\ tasks[t].calls = <<HandlerCall(1, "ErrPass"), HandlerCall(2, "ErrHandler")>>
        /\ tasks[t].handler = 2
        /\ tasks[t].err = "ErrHandler"

\* A step of the goroutine of task t, other than a panic.
TaskStep(t) == NewContext(t) \/ \E err \in HandlerOutcomes : CallHandler(t, err)

\* The goroutine of task t has not ended.
InFlight(t) == tasks[t].pc \in {"spawned", "loop"}

\* Every update sent on the channel has been received and handed to the
\* executor, and its goroutine has ended.
AllProcessed ==
    /\ updatesChan = <<>>
    /\ received = <<>>
    /\ wg = 0
    /\ \A t \in 1..Len(tasks) : ~InFlight(t)

\* C12 (under DispatchSpec): once a Stop that was called after the channel
\* was closed has returned, every update that was sent on the channel has
\* been processed to its end, the counter is zero and no handler is running
\* or starts later.
C12_StopAfterCloseIsClean == stopped = "after close" => AllProcessed

\* What does hold under DispatchSpec: a Stop that is called after Run has
\* returned returns when every update has been processed.
StopAfterRunIsClean == stopped = "after Run" => AllProcessed

\* C13 (under DispatchSpec): after a handler has panicked for one update,
\* every other update that was received can still go on through its chain
\* (its goroutine is started and can take its next step until it is done),
\* and a Stop that finds the counter at zero can still return.
C13_PanicIsIsolated ==
    (\E t \in 1..Len(tasks) : tasks[t].pc = "panicked") =>
        /\ \A u \in 1..Len(tasks) : InFlight(u) => ENABLED TaskStep(u)
        /\ (Len(received) = 1 /\ phase # "returned") => ENABLED RunExecute
        /\ (stopped = "no" /\ wg = 0) => ENABLED Stop

\* The update of task t was dropped: newContext returned nil for it.
Dropped(t) == ~tasks[t].update.ok /\ tasks[t].pc # "spawned"

\* C14 (under DispatchSpec): an update for which extractChatInfo returns
\* ok = false ends with a warning and without any handler called; the step
\* that drops it decrements the counter and touches neither the data storage
\* nor the state storage; and after it the other updates go on as usual: Run
\* can receive the next update and every started goroutine can take its step.
C14_NoContextDropsUpdate ==
    /\ [](\A t \in 1..Len(tasks) :
            Dropped(t) => /\ tasks[t].pc = "done"
                          /\ tasks[t].calls = <<>>
                          /\ tasks[t].handler = 0
                          /\ tasks[t].log = "could not determine context")
    /\ [][\A t \in 1..Len(tasks) :
            (~tasks[t].update.ok /\ NewContext(t)) =>
                /\ wg' = wg - 1
                /\ UNCHANGED <<storeVars, stackVars>>]_vars
    /\ []((phase = "running" /\ \E t \in 1..Len(tasks) : Dropped(t)) =>
            /\ \A u \in 1..Len(tasks) : InFlight(u) => ENABLED TaskStep(u)
            /\ Len(received) = 1 => ENABLED RunExecute
            /\ (Len(received) = 0 /\ Len(updatesChan) > 0) => ENABLED RunReceive)

C14_Witness ==
    /\ Len(tasks) = 2
    /\ Dropped(1) /\ wg = 0
    /\ tasks[2].update.ok /\ tasks[2].pc = "done"
    /\ tasks[2].calls = <<HandlerCall(1, "ErrPass"), HandlerCall(2, "nil")>>

\* ------------------------------------------------------------------------
\* Properties of transitions taken step by step (checked under StackConcSpec)
\* ------------------------------------------------------------------------

Other(w) == CHOOSE x \in Workers : x # w

\* C15: in toState(S).Go made while no other transition is under way, Render
\* is not called before the new stack is persisted; when Render of S is called
\* (once, and of no other state) the storage holds the new stack, with S on
\* top; and Go returns what Render returned, after which the storage still
\* holds the new stack, also when Render failed.
C15_PersistBeforeRender ==
    \A w \in Workers :
        (trans[w].kind = "toState" /\ trans[Other(w)].pc = "idle") =>
            LET new == Blob(Marshal(KnownNames(states, trans[w].stack)))
            IN  /\ trans[w].pc \in {"read", "written"} => trans[w].rendered = <<>>
                /\ trans[w].pc = "written" => stateData[trans[w].key] = new
                /\ trans[w].pc = "done" =>
                    /\ trans[w].rendered = <<Call(trans[w].state, trans[w].err)>>
                    /\ trans[w].atRender = new
                    /\ stateData[trans[w].key] = new
                    /\ LET now == CurStack(trans[w].key)
                       IN  Len(now) > 0 /\ now[Len(now)].ID = trans[w].state

C15_Witness ==
    /\ trans["w1"].kind = "toState" /\ trans["w1"].pc = "done"
    /\ trans["w2"].pc = "idle"
    /\ trans["w1"].err = "ErrRender"
    /\ Len(trans["w1"].before) = 2
    /\ Len(CurStack(trans["w1"].key)) = 3

\* What a transition makes of a stack when nothing else runs.
Apply(t, stack) ==
    IF t.kind = "toState" THEN toStateStack(stack, states[t.state])
    ELSE IF backReturnsEarly(stack) THEN stack
    ELSE backStack(stack)

\* C20: when two goroutines have each made one transition on the same chat,
\* the persisted stack is what the two transitions make of the stack the
\* chat started with when they are made one after the other, in one of the
\* two orders.
C20_NoLostUpdate ==
    (/\ \A w \in Workers : trans[w].pc = "done"
     /\ trans["w1"].key = trans["w2"].key) =>
        LET key == trans["w1"].key
            start == getStack(last.dataBefore, states, key).stack
        IN  CurStack(key) \in
                {Apply(trans["w2"], Apply(trans["w1"], start)),
                 Apply(trans["w1"], Apply(trans["w2"], start))}

\* ------------------------------------------------------------------------
\* Properties of chained states (checked under ChainSpec)
\* ------------------------------------------------------------------------

\* The registry of the quiz bot: main's next goes to quiz, quiz's next is back.
QuizChain ==
    /\ DOMAIN states = {"main", "quiz"}
    /\ states["main"].ToNext = ToStateTransition("quiz")
    /\ states["quiz"].ToNext = BackTransition

\* C19: RegisterAndChainStates(s1..sn) with names that are free and differ
\* registers every s_i, with the next of s_i (i < n) a transition to s_(i+1)
\* and the next of s_n as the caller set it, and returns a transition to s1.
\* With main and quiz chained and quiz's next Back(): Go(main) on a chat
\* without a stack gives [main]; main's next on [main] gives [main, quiz] and
\* renders quiz; quiz's next on [main, quiz] gives [main] and renders main.
C19_ChainStates ==
    /\ [][\A chain \in ChainArgs :
            (/\ phase = "setup"
             /\ Len(chain) > 0
             /\ \A i \in 1..Len(chain) :
                    /\ chain[i].ID \notin DOMAIN states
                    /\ \A j \in 1..Len(chain) : chain[i].ID = chain[j].ID => i = j
             /\ RegisterAndChainStates(chain))
            => /\ phase' = phase
               /\ DOMAIN states' = DOMAIN states \cup {chain[i].ID : i \in 1..Len(chain)}
               /\ \A n \in DOMAIN states : states'[n] = states[n]
               /\ \A i \in 1..Len(chain) :
                    states'[chain[i].ID] =
                        [chain[i] EXCEPT !.ToNext =
                            IF i < Len(chain) THEN ToStateTransition(chain[i + 1].ID)
                            ELSE chain[i].ToNext]
               /\ last'.op = "RegisterAndChainStates"
               /\ last'.state = chain[1].ID]_vars
    /\ [][(/\ QuizChain
           /\ CurStack(TheChat) = <<>>
           /\ ToStateGo(TheChat, states["main"]))
          => CurStack(TheChat)' = <<states["main"]>>]_vars
    /\ [][(/\ QuizChain
           /\ CurStack(TheChat) = <<states["main"]>>
           /\ NextGo(TheChat, "main"))
          => /\ CurStack(TheChat)' = <<states["main"], states["quiz"]>>
             /\ last'.rendered = <<Call("quiz", last'.err)>>]_vars
    /\ [][(/\ QuizChain
           /\ CurStack(TheChat) = <<states["main"], states["quiz"]>>
           /\ NextGo(TheChat, "quiz"))
          => /\ CurStack(TheChat)' = <<states["main"]>>
             /\ last'.rendered = <<Call("main", last'.err)>>]_vars

C19_Witness ==
    /\ QuizChain
    /\ last.op = "back" /\ last.via = "quiz"
    /\ last.before = <<states["main"], states["quiz"]>>
    /\ CurStack(TheChat) = <<states["main"]>>
    /\ last.rendered = <<Call("main", "nil")>>

\* ------------------------------------------------------------------------
\* Properties of the data storage's history (checked under StoreLinSpec)
\* ------------------------------------------------------------------------

\* No call is under way.
Quiet == \A w \in Workers : ops[w].pc \in {"idle", "done"}

\* The order keeps every call after the calls that had returned before it
\* started.
RespectsRealTime(order) ==
    \A i, j \in 1..Len(hist) : i < j => order[j] \notin hist[order[i]].after

RECURSIVE Fits(_, _, _)
\* Whether the calls made one at a time in the given order, from position i
\* on and with the chat's data being mem, give the results the history has.
Fits(order, i, mem) ==
    IF i > Len(hist) THEN TRUE
    ELSE LET e == hist[order[i]]
         IN  IF e.op = "Set" THEN Fits(order, i + 1, [mem EXCEPT ![e.key] = e.value])
             ELSE IF e.op = "Remove"
                THEN Fits(order, i + 1, [mem EXCEPT ![e.key] = NoValue])
             ELSE IF e.op = "Clear" THEN Fits(order, i + 1, EmptyMap)
             ELSE /\ IF mem[e.key] = NoValue
                     THEN e.err = "ErrDataKeyNotFound" /\ e.val = NoValue
                     ELSE e.err = "nil" /\ e.val = mem[e.key]
                  /\ Fits(order, i + 1, mem)

\* C21 (under StoreLinSpec): whenever the concurrent Set, Get, Remove and
\* Clear calls on one chat have all returned, there is an order of the calls
\* that keeps every call after those that returned before it started and in
\* which the calls, made one at a time, return what they returned (so a Set
\* started after a Clear returned is seen by the later Gets, and a Clear is
\* never seen half applied).
C21_Linearizable ==
    Quiet => \E order \in Permutations(1..Len(hist)) :
                RespectsRealTime(order) /\ Fits(order, 1, latest[TheChat])

\* A Clear runs between the two steps of a Set, and a Get started after both
\* returned does not find the key.
C21_Witness ==
    /\ Quiet
    /\ Len(hist) = 3
    /\ hist[1].op = "Set" /\ hist[2].op = "Clear" /\ hist[2].after = {}
    /\ hist[3].op = "Get" /\ hist[3].key = hist[1].key /\ hist[3].after = {1, 2}
    /\ hist[3].err = "ErrDataKeyNotFound"

\* ------------------------------------------------------------------------
\* The dispatcher after a handler has failed, Run's return and the counter
\* (checked under DispatchSpec)
\* ------------------------------------------------------------------------

\* A handler returned a failure (an error other than ErrPass) for task t.
Failed(t) ==
    \E i \in 1..Len(tasks[t].calls) : tasks[t].calls[i].err = "ErrHandler"

\* C22 (under DispatchSpec): a handler that returns a failure ends the
\* processing of its update: the failing call is the last call of the task,
\* every handler before it was called once and declined, the failure is
\* logged for the handler that returned it, a task that is done never changes
\* again (no later handler, no retry), and the dispatcher goes on: Run can
\* receive and start the next update and every other started goroutine can
\* take its next step.
C22_FailureEndsProcessing ==
    /\ [](\A t \in 1..Len(tasks) :
            Failed(t) =>
                LET c == tasks[t].calls
                    n == Len(c)
                IN  /\ tasks[t].pc = "done"
                    /\ c[n].err = "ErrHandler"
                    /\ \A i \in 1..n : c[i].pos = i
                    /\ \A i \in 1..(n - 1) : c[i].err = "ErrPass"
                    /\ tasks[t].err = "ErrHandler"
                    /\ tasks[t].log = "failed to handle update"
                    /\ tasks[t].logHandler = handlers[n])
    /\ [][\A t \in 1..Len(tasks) :
            tasks[t].pc = "done" => tasks'[t] = tasks[t]]_vars
    /\ []((phase # "panicked" /\ \E t \in 1..Len(tasks) : Failed(t)) =>
            /\ \A u \in 1..Len(tasks) : InFlight(u) => ENABLED TaskStep(u)
            /\ (phase = "running" /\ Len(received) = 1) => ENABLED RunExecute
            /\ (phase = "running" /\ Len(received) = 0 /\ Len(updatesChan) > 0)
                    => ENABLED RunReceive)

C22_Witness ==
    /\ Len(tasks) = 2
    /\ Failed(1)
    /\ tasks[1].calls = <<HandlerCall(1, "ErrPass"), HandlerCall(2, "ErrHandler")>>
    /\ tasks[1].logHandler = "state_handler"
    /\ tasks[2].pc = "done"
    /\ tasks[2].calls = <<HandlerCall(1, "nil")>>

\* Every update sent on the channel has been handed to the executor.
Drained == updatesChan = <<>> /\ received = <<>>

\* C23 (under DispatchSpec): Run returns exactly when the channel is closed
\* and every update sent on it has been handed to the executor: it has
\* returned only in such a state, and while it runs it can return if and only
\* if the state is such, whatever the counter says; the goroutines that are
\* still in flight when Run has returned go on with their steps.
C23_RunReturnsWhenDrained ==
    /\ phase = "returned" => (closed /\ Drained)
    /\ phase = "running" => (ENABLED RunReturn <=> (closed /\ Drained))
    /\ phase = "returned" =>
            \A u \in 1..Len(tasks) : InFlight(u) => ENABLED TaskStep(u)

C23_Witness ==
    /\ phase = "returned"
    /\ wg = 2
    /\ tasks[1].pc = "loop" /\ tasks[1].calls = <<HandlerCall(1, "ErrPass")>>
    /\ tasks[2].pc = "spawned"

\* ------------------------------------------------------------------------
\* Transitions of different chats made concurrently: each goroutine serves
\* one chat and makes one transition after the other on it
\* ------------------------------------------------------------------------

\* The chat whose updates goroutine w handles (ctx.ChatKey()).
ChatOf(w) == IF w = "w1" THEN "c1" ELSE "c2"

\* The stacks earlier transitions may have left for a chat.
LeftBlobs ==
    {NoBlob} \cup {Blob(Marshal(q)) :
                    q \in {p \in SeqsUpTo(StateNames, MaxStored) : NoDup(p)}}

\* Every name is registered and each chat has a stack of its own (or none);
\* last.dataBefore is the reference storage: what each chat's own finished
\* transitions make of its first stack, applied one after the other.
StackKeysInit ==
    /\ phase = "running"
    /\ states = [n \in StateNames |-> State(n, 1, NilTransition)]
    /\ stateData \in [ChatKeys -> LeftBlobs]
    /\ fresh = {k \in ChatKeys : ~stateData[k].present}
    /\ last = [NoOp EXCEPT !.dataBefore = stateData]
    /\ trans = [w \in Workers |-> IdleGo]
    /\ InitStore
    /\ InitDispatch

\* Go has returned to the handler that called it; the handler's goroutine
\* can make its next transition. The reference storage takes the transition.
GoReturn(w) ==
    /\ phase = "running"
    /\ trans[w].pc = "done"
    /\ trans' = [trans EXCEPT ![w] = IdleGo]
    /\ last' = [last EXCEPT !.dataBefore =
                    SetStack(@, trans[w].key,
                        Marshal(KnownNames(states,
                            Apply(trans[w],
                                  getStack(@, states, trans[w].key).stack))))]
    /\ UNCHANGED <<phase, states, stateData, fresh, storeVars, dispatchVars>>

StackKeysNext ==
    \/ \E w \in Workers, t \in Transitions : GoGetStack(w, t, ChatOf(w))
    \/ \E w \in Workers : GoSetStack(w)
    \/ \E w \in Workers, rerr \in RenderOutcomes : GoRender(w, rerr)
    \/ \E w \in Workers : GoReturn(w)

StackKeysSpec == StackKeysInit /\ [][StackKeysNext]_vars

\* The stack of a chat in the reference storage.
RefStack(key) == getStack(last.dataBefore, states, key).stack

\* C24 (under StackKeysSpec): while transitions (the same Transition value
\* or different ones) are made concurrently for different chats, the stack
\* of each chat is at every moment what its own transitions, applied one
\* after the other and alone, make of its first stack: the reference stack
\* before the running transition has written, and the running transition
\* applied to the reference stack after; and a step changes the stored stack
\* of a chat only when it is the setStack of a transition of that chat.
C24_ChatsDoNotInterfere ==
    /\ [](\A w \in Workers :
            LET key == ChatOf(w)
            IN  /\ trans[w].pc = "idle" => CurStack(key) = RefStack(key)
                /\ trans[w].pc = "read" =>
                        /\ trans[w].before = RefStack(key)
                        /\ CurStack(key) = RefStack(key)
                /\ trans[w].pc \in {"written", "done"} =>
                        CurStack(key) = Apply(trans[w], RefStack(key)))
    /\ [][\A key \in ChatKeys :
            stateData'[key] # stateData[key] =>
                \E w \in Workers : /\ ChatOf(w) = key
                                   /\ trans[w].pc = "read"
                                   /\ trans[w].key = key
                                   /\ GoSetStack(w)]_vars

C24_Witness ==
    /\ trans["w1"].pc = "written" /\ trans["w2"].pc = "written"
    /\ trans["w1"].kind = "toState" /\ trans["w2"].kind = "toState"
    /\ trans["w1"].state = "quiz" /\ trans["w2"].state = "quiz"
    /\ stateData["c1"] = Blob(Marshal(<<"main", "quiz">>))
    /\ stateData["c2"] = Blob(Marshal(<<"result", "quiz">>))
    /\ last.dataBefore["c1"] # stateData["c1"]
    /\ last.dataBefore["c2"] # stateData["c2"]

\* The goroutines Run started (after its wg.Add(1)) that have not ended.
Running == {t \in 1..Len(tasks) : InFlight(t)}

\* C25 as stated (under DispatchSpec): in every state the counter is the
\* number of updates read from the channel whose goroutine has not ended,
\* the update Run has received and not yet counted included.
C25_CounterCountsReadUpdates ==
    wg = Len(received) + Cardinality(Running)

\* C25 amended (under DispatchSpec): in every state the counter is the
\* number of updates for which Run has called wg.Add(1) and whose goroutine
\* has not ended, and it is never negative; it goes up by one exactly in the
\* step of Run that hands an update to the executor, and down by one exactly
\* in the step that ends the goroutine of an update (a dropped update and a
\* panic included), which happens once per update: a goroutine that has
\* ended stays ended.
C25_CounterCountsStartedTasks ==
    /\ [](wg = Cardinality(Running) /\ wg >= 0)
    /\ [][/\ wg' \in {wg - 1, wg, wg + 1}
          /\ wg' = wg + 1 <=> (Len(received) = 1 /\ RunExecute)
          /\ wg' = wg - 1 <=>
                \E t \in 1..Len(tasks) : InFlight(t) /\ tasks'[t].pc \in {"done", "panicked"}
          /\ \A t \in 1..Len(tasks) :
                ~InFlight(t) => tasks'[t] = tasks[t]]_vars

C25_Witness ==
    /\ Len(tasks) = 2
    /\ Dropped(1) /\ tasks[1].pc = "done"
    /\ tasks[2].pc = "loop"
    /\ wg = 1

\* ------------------------------------------------------------------------
\* The dispatcher under fair scheduling, with handlers that return
\* ------------------------------------------------------------------------

\* No handler panics: every call of a handler returns.
DispatchFairNext ==
    \/ \E name \in HandlerNames :
            name = NthHandler(Len(handlers) + 1) /\ AppHandle(name)
    \/ Run
    \/ \E update \in Updates : Send(update)
    \/ Close
    \/ RunReceive
    \/ RunExecute
    \/ RunReturn
    \/ \E t \in 1..Len(tasks) : NewContext(t)
    \/ \E t \in 1..Len(tasks), err \in HandlerOutcomes : CallHandler(t, err)
    \/ Stop

\* The step of the t-th goroutine that DefaultExecutor started.
GoroutineStep(t) == t \in 1..Len(tasks) /\ TaskStep(t)

\* The Go scheduler runs every goroutine that can run: the one in Run (once
\* the program has called it) and the ones DefaultExecutor started, in which
\* every call of a handler returns.
DispatchFairness ==
    /\ WF_vars(Run)
    /\ WF_vars(RunReceive)
    /\ WF_vars(RunExecute)
    /\ WF_vars(RunReturn)
    /\ \A t \in 1..(MaxUpdates + 1) : WF_vars(GoroutineStep(t))

DispatchFairSpec == DispatchInit /\ [][DispatchFairNext]_vars /\ DispatchFairness

Unregistered(key) ==
    {n \in Range(Unmarshal(stateData[key].blob).val) : n \notin DOMAIN states}

\* C27: StateHandler.Handle leaves the state storage as it is, whatever it
\* read and whatever the state's Handle returned: a blob that does not parse
\* or that names unregistered states is still there after Handle; it is only
\* a transition that writes which replaces it, by a blob that parses and
\* names registered states only.
C27_HandleNeverWrites ==
    /\ [][Handle(TheChat) => stateData' = stateData]_vars
    /\ [](last.op = "Handle" => stateData = last.dataBefore)
    /\ []((last.op \in {"toState", "back"} /\ stateData # last.dataBefore) =>
            /\ ~Unmarshal(stateData[last.key].blob).err
            /\ Unregistered(last.key) = {})

C27_Witness ==
    /\ last.op = "Handle"
    /\ last.handled = <<Call("main", "nil")>>
    /\ stateData[TheChat] = Blob(Marshal(<<"quiz", "main", "result">>))
    /\ Unregistered(TheChat) = {"quiz", "result"}

\* ------------------------------------------------------------------------
\* A chat's handlers using the data storage and the state stack: one
\* goroutine makes Set, Remove, Clear, transitions and Handle in any order
\* ------------------------------------------------------------------------

\* Every name is registered; the chat has a stack earlier transitions left
\* (or none) and no data.
BothInit ==
    /\ phase = "running"
    /\ states = [n \in StateNames |-> State(n, 1, NilTransition)]
    /\ stateData \in {[k \in ChatKeys |-> IF k = TheChat THEN b ELSE NoBlob] :
                        b \in LeftBlobs}
    /\ fresh = {k \in ChatKeys : ~stateData[k].present}
    /\ last = NoOp
    /\ trans = [w \in Workers |-> IdleGo]
    /\ InitStore
    /\ InitDispatch

\* Clear(ctx) as a handler calls it (the quiz bot's /start handler calls it
\* before toMainState.Go).
Clear(w, chatKey) ==
    /\ ClearData(w, chatKey)
    /\ stateData' = clearStack(stateData, chatKey)
    /\ UNCHANGED <<latest, hist, phase, states, last, fresh, trans, dispatchVars>>

\* latest keeps, per key, the value of the last Set that returned.
BothNext ==
    \/ /\ \E k \in DataKeys : SetDataLoadOrStore("w1", TheChat, k, Value(TheChat, 1))
       /\ UNCHANGED <<latest, hist, phase, stackVars, dispatchVars>>
    \/ /\ SetDataStore("w1")
       /\ latest' = [latest EXCEPT ![TheChat][ops["w1"].key] = ops["w1"].value]
       /\ UNCHANGED <<hist, phase, stackVars, dispatchVars>>
    \/ /\ \E k \in DataKeys : RemoveDataLoadOrStore("w1", TheChat, k)
       /\ UNCHANGED <<latest, hist, phase, stackVars, dispatchVars>>
    \/ /\ RemoveDataDelete("w1")
       /\ UNCHANGED <<latest, hist, phase, stackVars, dispatchVars>>
    \/ Clear("w1", TheChat)
    \/ /\ ops["w1"].pc # "loaded"
       /\ \E state \in Range(states) : ToStateGo(TheChat, state)
    \/ /\ ops["w1"].pc # "loaded"
       /\ BackGo(TheChat)
    \/ /\ ops["w1"].pc # "loaded"
       /\ Handle(TheChat)

BothSpec == BothInit /\ [][BothNext]_vars

\* A step of a data call: Set, Remove or Clear.
DataStep == <<data, heap, ops>>' # <<data, heap, ops>>

\* A step of the state stack machine: a transition or Handle.
StackStep == <<stateData, last>>' # <<stateData, last>>

StorageCalls == {"", "GetStack", "SetStack"}

\* Every name is registered; the storage holds a stack for the chat (or
\* none) and works, or fails in one of its calls.
FailInit ==
    /\ phase = "running"
    /\ states = [n \in StateNames |-> State(n, 1, NilTransition)]
    /\ stateData \in {[k \in ChatKeys |->
                         IF k = TheChat THEN Failing(b, call) ELSE NoBlob] :
                        b \in LeftBlobs, call \in StorageCalls}
    /\ fresh = {k \in ChatKeys : ~stateData[k].present}
    /\ last = NoOp
    /\ trans = [w \in Workers |-> IdleGo]
    /\ InitStore
    /\ InitDispatch

\* The storage starts to fail in a call, or recovers.
StorageTurns(call) ==
    /\ stateData[TheChat].fails # call
    /\ stateData' = [stateData EXCEPT ![TheChat] = Failing(@, call)]
    /\ UNCHANGED <<phase, states, last, fresh, trans, storeVars, dispatchVars>>

FailNext ==
    \/ \E call \in StorageCalls : StorageTurns(call)
    \/ \E state \in Range(states) : ToStateGo(TheChat, state)
    \/ BackGo(TheChat)
    \/ Handle(TheChat)

FailSpec == FailInit /\ [][FailNext]_vars

\* A transition of the chat: toState.Go or back.Go.
GoStep == BackGo(TheChat) \/ \E state \in Range(states) : ToStateGo(TheChat, state)

\* C29 (under FailSpec): while the storage's GetStack fails (with an error
\* other than not-found), toState.Go and back.Go write nothing, render
\* nothing and return the error, and StateHandler.Handle returns the error
\* without calling a state's Handle; while its SetStack fails, a Go that gets
\* as far as writing returns the error and renders nothing.
C29_StorageFailureStopsTransition ==
    /\ [][(stateData[TheChat].fails = "GetStack" /\ (GoStep \/ Handle(TheChat))) =>
            /\ stateData' = stateData
            /\ last'.err = "failed to get stack"
            /\ last'.rendered = <<>>
            /\ last'.handled = <<>>]_vars
    /\ [][(/\ stateData[TheChat].fails = "SetStack"
           /\ GoStep
           /\ ~(last'.op = "back" /\ last'.before = <<>>)) =>
            /\ last'.err = "failed to set stack"
            /\ last'.rendered = <<>>]_vars

C29_Witness ==
    /\ last.op = "toState"
    /\ last.err = "failed to set stack"
    /\ last.rendered = <<>>
    /\ Len(last.before) = 2
    /\ stateData[TheChat].fails = "SetStack"

\* ------------------------------------------------------------------------
\* BaseState.Handle under StateHandler.Handle in the dispatcher's chain
\* ------------------------------------------------------------------------

\* The most sub-handlers a state has.
MaxSubHandlers == 2

\* len(b.Handlers) of the registered states: main has one handler (the quiz
\* bot's category button), quiz has several, result has none.
NumHandlers(name) ==
    IF name = "main" THEN 1
    ELSE IF name = "quiz" THEN MaxSubHandlers
    ELSE 0

\* Mutant of BaseStateHandle: a state without handlers declines.
BaseStateHandleEmptyDeclines(outs) ==
    LET nonPass == {i \in 1..Len(outs) : outs[i] # "ErrPass"}
    IN  IF nonPass = {} THEN [err |-> "ErrPass", called |-> Len(outs)]
        ELSE LET n == CHOOSE i \in nonPass : \A j \in nonPass : i <= j
             IN  [err |-> outs[n], called |-> n]

RECURSIVE baseStateLoop(_, _, _)
\* BaseState.Handle's loop from its i-th handler on, err being the local
\* variable err: outs[i] is what the i-th handler returns when it is called.
baseStateLoop(outs, i, err) ==
    IF i > Len(outs) THEN [err |-> err, called |-> i - 1]
    ELSE IF outs[i] = "ErrPass" THEN baseStateLoop(outs, i + 1, outs[i])
    ELSE [err |-> outs[i], called |-> i]

\* BaseState.Handle: what it returns and how many of its handlers it called
\* (the first called of them, in order).
BaseStateHandle(outs) == baseStateLoop(outs, 1, "nil")

\* The stacks of the chat: none, or one with main, quiz or result on top.
TopBlobs ==
    {NoBlob, Blob(Marshal(<<"main">>)), Blob(Marshal(<<"main", "quiz">>)),
     Blob(Marshal(<<"main", "quiz", "result">>))}

\* The chain of the quiz bot is registered, every state is registered, and
\* the chat has a stack earlier transitions left (or none).
BaseInit ==
    /\ phase = "running"
    /\ states = [n \in StateNames |-> State(n, 1, NilTransition)]
    /\ stateData \in {[k \in ChatKeys |-> IF k = TheChat THEN b ELSE NoBlob] :
                        b \in TopBlobs}
    /\ fresh = {k \in ChatKeys : ~stateData[k].present}
    /\ last = NoOp
    /\ trans = [w \in Workers |-> IdleGo]
    /\ InitStore
    /\ handlers = Registered
    /\ updatesChan = <<>>
    /\ closed = FALSE
    /\ wg = 0
    /\ tasks = <<>>
    /\ stopped = "no"
    /\ received = <<>>

\* The handler that task t calls next is the StateHandler.
AtStateHandler(t) ==
    /\ tasks[t].pc = "loop"
    /\ handlers[tasks[t].next] = "state_handler"

\* The iteration of processUpdate's loop that calls StateHandler.Handle, the
\* registered states being BaseStates: outs[i] is what the i-th handler of
\* the top state returns when it is called.
CallStateHandler(t, outs) ==
    /\ AtStateHandler(t)
    /\ LET r == getStack(stateData, states, tasks[t].update.chatKey)
       IN  IF r.err # "nil" THEN outs = <<>> /\ CallHandler(t, r.err)
           ELSE IF handleDeclines(r) THEN outs = <<>> /\ CallHandler(t, "ErrPass")
           ELSE /\ Len(outs) = NumHandlers(handleTop(r.stack).ID)
                /\ CallHandler(t, BaseStateHandle(outs).err)

\* What the handlers of a state may return.
SubOutcomes == SeqsUpTo(HandlerOutcomes, MaxSubHandlers)

BaseNext ==
    \/ Send(Update(TheChat, TRUE))
    \/ Close
    \/ RunReceive
    \/ RunExecute
    \/ RunReturn
    \/ \E t \in 1..Len(tasks) : NewContext(t)
    \/ \E t \in 1..Len(tasks), err \in HandlerOutcomes :
            ~AtStateHandler(t) /\ CallHandler(t, err)
    \/ \E t \in 1..Len(tasks), outs \in SubOutcomes : CallStateHandler(t, outs)

BaseSpec == BaseInit /\ [][BaseNext]_vars

\* C30 (under BaseSpec): when the StateHandler is called for a chat with an
\* active state, the state's handlers are called in order up to the first
\* that does not decline, whose outcome is what BaseState.Handle and
\* StateHandler.Handle return; when all of them decline, the outcome is
\* ErrPass and the dispatcher goes on with the handler after the
\* StateHandler; a state without handlers returns nil, which ends the chain
\* for the update.
C30_BaseStateHandle ==
    [][\A t \in 1..Len(tasks), outs \in SubOutcomes :
        (/\ AtStateHandler(t)
         /\ tasks'[t] # tasks[t]
         /\ Len(CurStack(tasks[t].update.chatKey)) > 0
         /\ CallStateHandler(t, outs)) =>
            LET b == BaseStateHandle(outs)
                pos == tasks[t].next
                n == Len(outs)
                made == tasks'[t].calls[Len(tasks'[t].calls)]
            IN  /\ b.called <= n
                /\ \A i \in 1..(b.called - 1) : outs[i] = "ErrPass"
                /\ b.called > 0 => b.err = outs[b.called]
                /\ b.called < n => b.err # "ErrPass"
                /\ made = HandlerCall(pos, b.err)
                /\ (n > 0 /\ \A i \in 1..n : outs[i] = "ErrPass") =>
                        /\ b.err = "ErrPass"
                        /\ tasks'[t].pc = "loop"
                        /\ tasks'[t].next = pos + 1
                        /\ handlers[pos + 1] = "function_handler"
                /\ n = 0 =>
                        /\ b.err = "nil"
                        /\ tasks'[t].pc = "done"
                        /\ tasks'[t].log = ""]_vars

C30_Witness ==
    /\ stateData[TheChat] = Blob(Marshal(<<"main", "quiz">>))
    /\ Len(tasks) = 2
    /\ tasks[1].pc = "done"
    /\ tasks[1].calls = <<HandlerCall(1, "ErrPass"), HandlerCall(2, "ErrPass"),
                          HandlerCall(3, "nil")>>
    /\ tasks[2].pc = "done"
    /\ tasks[2].calls = <<HandlerCall(1, "ErrPass"), HandlerCall(2, "ErrHandler")>>

====
